---- MODULE Spec2Model ----
(***************************************************************************)
(* The capture session of the cube-solver web backend.                     *)
(*                                                                         *)
(* The repository holds three copies of the session:                       *)
(*   "root"  src/backend_api.py              integrated_camera_capture     *)
(*   "api"   src/api/backend_api.py          integrated_camera_capture     *)
(*   "main"  src/api/web_integrated_camera.py  main                        *)
(* One behaviour of the model runs one session of one copy (impl).  The    *)
(* collaborators that live outside the repository (cv2.VideoCapture,       *)
(* show_live_preview, capture_face, edit_face_colors, fix_cube_complete,   *)
(* validate_cube_state, the file system) answer nondeterministically:      *)
(* they return or they raise.                                              *)
(***************************************************************************)
EXTENDS Integers, Sequences, FiniteSets, TLC

VARIABLES
    impl,                       \* which copy of the session runs
    config_imported,            \* from config import COLOR_TO_CUBE succeeded
    camera_interface_imported,  \* from camera_interface import ... succeeded
    cube_validation_imported,   \* from cube_validation import ... succeeded
    pc,                         \* position of the session in its code
    i,                          \* loop index of `for i, face in enumerate(face_order)`
    colors,                     \* the local `colors` of the loop body
    cube_state,                 \* the local `cube_state`
    cube_string,                \* the local `cube_string`
    final_is_valid,             \* the local `final_is_valid`
    success,                    \* the local `success`
    camera,                     \* "none" | "failed" | "open" | "released"
    dirExists,                  \* os.path.exists(WEB_OUTPUT_DIR)
    statusFile,                 \* content of STATUS_FILE
    resultFile,                 \* content of CUBE_STATE_FILE
    clock,                      \* datetime.now(), one tick per call
    writeFailures,              \* file-system failures injected so far
    statusLog,                  \* history: the statuses passed to update_status
    resultLog,                  \* history: is_valid, length and call site of every save_cube_state call
    releaseCount,               \* history: calls of cam.release()
    faceSource,                 \* history: per appended face, "captured" or "fallback"
    cancelled,                  \* history: show_live_preview returned False
    faceRaised,                 \* history: the loop indices at which the capture of the face raised
    rawState,                   \* history: cube_state when the face loop ended
    fixed_cube_state,           \* the first result of fix_cube_complete, << >> before it returns
    fix_is_valid,               \* is_valid, the fourth result of fix_cube_complete; FALSE before it returns
    verdict,                    \* history: what validate_cube_state returned, "none" | "valid" | "invalid"
    fixOutcome,                 \* history: "none" | "returned" | "raised" | "unavailable" | "skipped"
    validateOutcome,            \* history: "none" | "returned" | "raised" | "unavailable" | "skipped"
    escaped,                    \* history: an exception left the session uncaught
    hsv,                        \* classifier: the sample given to classify_color
    classified,                 \* classifier: what classify_color returned
    threadPc,                   \* launcher: position of each background thread
    threadCamera,               \* launcher: the camera handle of each background thread
    lastWriter,                 \* launcher: the thread that wrote the status file last
    responses,                  \* launcher: the HTTP status of each launch request
    call,                       \* store: the arguments of the latest direct call of the store
    request,                    \* detect-colors: the JSON body of the request
    response                    \* detect-colors: the HTTP status and JSON body of the answer

vars == << impl, config_imported, camera_interface_imported, cube_validation_imported,
           pc, i, colors, cube_state, cube_string, final_is_valid, success, camera,
           dirExists, statusFile, resultFile, clock, writeFailures, statusLog,
           resultLog, releaseCount, faceSource, cancelled, faceRaised, rawState,
           fixed_cube_state, fix_is_valid, verdict, fixOutcome, validateOutcome, escaped,
           hsv, classified, threadPc, threadCamera, lastWriter, responses, call,
           request, response >>

(***************************************************************************)
(* Bounds of the model.                                                    *)
(***************************************************************************)
\* how many file-system operations (open for writing, makedirs) may fail in one session
MaxWriteFailures == 1

(***************************************************************************)
(* Program constants.                                                      *)
(***************************************************************************)
Impls == {"root", "api", "main"}

\* face_order = ["White", "Red", "Green", "Yellow", "Orange", "Blue"]
face_order == << "White", "Red", "Green", "Yellow", "Orange", "Blue" >>

\* the 54 of `len(cube_state) != 54`
TotalStickers == 54

\* the 9 of ['White'] * 9
FallbackLen == 9

\* COLOR_TO_CUBE (the fallback mapping of src/backend_api.py, the cube notation of config.py)
COLOR_TO_CUBE == [c \in {"White", "Red", "Green", "Yellow", "Orange", "Blue"} |->
                    CASE c = "White"  -> "U"
                      [] c = "Red"    -> "R"
                      [] c = "Green"  -> "F"
                      [] c = "Yellow" -> "D"
                      [] c = "Orange" -> "L"
                      [] c = "Blue"   -> "B"]

\* a notation that gives the code of the Up face to a colour missing from the mapping
Notation_DefaultU(color) == IF color \in DOMAIN COLOR_TO_CUBE THEN COLOR_TO_CUBE[color] ELSE "U"

\* COLOR_TO_CUBE.get(color, "X")
Notation(color) == IF color \in DOMAIN COLOR_TO_CUBE THEN COLOR_TO_CUBE[color] ELSE "X"

\* "".join([COLOR_TO_CUBE.get(color, "X") for color in state])
CubeString(state) == [k \in 1..Len(state) |-> Notation(state[k])]

\* a fallback face that is one sticker short
FallbackColors_Short == [k \in 1..(FallbackLen - 1) |-> "White"]

\* colors = ['White'] * 9
FallbackColors == [k \in 1..FallbackLen |-> "White"]

(***************************************************************************)
(* What the collaborators may answer.                                      *)
(***************************************************************************)
\* capture_face(cam) returns the nine colours of a face; two readings stand for
\* all of them, one of which holds a colour COLOR_TO_CUBE does not know
ReadingA == << "White", "Red", "Green", "Yellow", "Orange", "Blue", "White", "Red", "Green" >>
ReadingB == << "Blue", "Blue", "Blue", "Blue", "Purple", "Blue", "Blue", "Blue", "Yellow" >>
Readings == {ReadingA, ReadingB}

\* `colors` before capture_face assigned it, and a capture_face that returned None
NoColors == << "unset" >>
NoneColors == << "None" >>

\* fix_cube_complete returns the 54 colours with faces reordered; the model lets it
\* return its input or the input with the six faces in reverse order
ReverseFaces(state) ==
    [k \in 1..Len(state) |->
        state[(((Len(state) \div FallbackLen) - 1 - ((k - 1) \div FallbackLen)) * FallbackLen)
              + ((k - 1) % FallbackLen) + 1]]
FixOutputs(state) == {state, ReverseFaces(state)}

(***************************************************************************)
(* Module-level import state (src/backend_api.py 29-63,                    *)
(* src/api/backend_api.py 29-60, src/api/web_integrated_camera.py 22-31).  *)
(***************************************************************************)
\* BACKEND_AVAILABLE
BACKEND_AVAILABLE ==
    IF impl = "root" THEN config_imported /\ camera_interface_imported
                     ELSE config_imported

\* the name show_live_preview / capture_face is bound to a function
camera_functions_defined == camera_interface_imported

\* the name fix_cube_complete / validate_cube_state is bound to a function
validation_functions_defined == cube_validation_imported

ImportStates ==
    { s \in [impl : Impls, config : BOOLEAN, camera : BOOLEAN, validation : BOOLEAN] :
        \* root: the camera_interface and cube_validation imports are nested in the
        \* try block of the config import and are not attempted when it fails
        /\ (s.impl = "root" /\ ~s.config) => (~s.camera /\ ~s.validation)
        \* main: any failed import ends the process with sys.exit(1)
        /\ (s.impl = "main") => (s.config /\ s.camera /\ s.validation) }

(***************************************************************************)
(* The status and result files.                                            *)
(***************************************************************************)
NoMessage == [text |-> "", face |-> "", index |-> 0, count |-> 0]
Msg(text) == [text |-> text, face |-> "", index |-> 0, count |-> 0]
FaceMsg(text, face, index, count) == [text |-> text, face |-> face, index |-> index, count |-> count]

AbsentStatus == [status |-> "absent", message |-> NoMessage, progress |-> 0, timestamp |-> 0]
AbsentResult == [cube_state |-> << >>, cube_string |-> << >>, is_valid |-> FALSE,
                 timestamp |-> 0, face_count |-> 0, total_stickers |-> 0, absent |-> TRUE]

\* the record a finished earlier session left in CUBE_STATE_FILE: 54 stickers of a
\* valid cube, written before this session's clock started
StaleState == [k \in 1..TotalStickers |-> face_order[(k - 1) \div FallbackLen + 1]]
StaleResult == [cube_state |-> StaleState,
                cube_string |-> [k \in 1..TotalStickers |-> COLOR_TO_CUBE[StaleState[k]]],
                is_valid |-> TRUE, timestamp |-> 0,
                face_count |-> Len(face_order), total_stickers |-> TotalStickers,
                absent |-> FALSE]

\* progress is a float in the code; the model keeps it exactly, in units of
\* 1/len(face_order) percent: Percent(90) is 90, FaceProgress(i) is (i / 6) * 100
Percent(p) == p * Len(face_order)
\* a progress computed from the one-based number of the face
FaceProgress_OneBased(n) == (n + 1) * 100

FaceProgress(n) == n * 100

\* whether the next open(..., 'w') succeeds: it fails when the directory is missing,
\* and may fail for any other reason while the failure budget lasts
WriteOutcomes ==
    IF ~dirExists THEN {FALSE}
    ELSE IF writeFailures < MaxWriteFailures THEN {TRUE, FALSE}
    ELSE {TRUE}

Failures(ok) == IF ~ok /\ dirExists THEN writeFailures + 1 ELSE writeFailures

\* an update_status that patches the status field of the stored record and keeps
\* the rest of the file
update_status_Patch(status, message, progress, ok) ==
    /\ statusFile' = IF ok THEN [statusFile EXCEPT !.status = status]
                           ELSE statusFile
    /\ statusLog' = Append(statusLog, status)
    /\ clock' = clock + 1
    /\ writeFailures' = Failures(ok)

\* update_status(status, message, progress): overwrite STATUS_FILE, swallow a failure
update_status(status, message, progress, ok) ==
    /\ statusFile' = IF ok THEN [status |-> status, message |-> message,
                                 progress |-> progress, timestamp |-> clock]
                           ELSE statusFile
    /\ statusLog' = Append(statusLog, status)
    /\ clock' = clock + 1
    /\ writeFailures' = Failures(ok)

\* a cube_data whose face_count counts the saves made instead of the faces held
CubeData_CountingSaves(state, string, is_valid) ==
    [cube_state |-> state, cube_string |-> string, is_valid |-> is_valid,
     timestamp |-> clock,
     face_count |-> resultFile.face_count + 1,
     total_stickers |-> IF Len(state) > 0 THEN Len(state) ELSE 0,
     absent |-> FALSE]

\* the record save_cube_state builds
CubeData(state, string, is_valid) ==
    [cube_state |-> state, cube_string |-> string, is_valid |-> is_valid,
     timestamp |-> clock,
     face_count |-> IF Len(state) > 0 THEN Len(state) \div FallbackLen ELSE 0,
     total_stickers |-> IF Len(state) > 0 THEN Len(state) ELSE 0,
     absent |-> FALSE]

\* a save_cube_state that ignores its is_valid argument and stores True
save_cube_state_AlwaysValid(state, string, is_valid, ok) ==
    /\ resultFile' = IF ok THEN CubeData(state, string, TRUE) ELSE resultFile
    /\ resultLog' = Append(resultLog, [is_valid |-> TRUE, stickers |-> Len(state),
                                       at |-> pc])
    /\ clock' = clock + 1
    /\ writeFailures' = Failures(ok)

\* save_cube_state(cube_state, cube_string, is_valid): overwrite CUBE_STATE_FILE,
\* return True, or False on a failure
save_cube_state(state, string, is_valid, ok) ==
    /\ resultFile' = IF ok THEN CubeData(state, string, is_valid) ELSE resultFile
    /\ resultLog' = Append(resultLog, [is_valid |-> is_valid, stickers |-> Len(state),
                                       at |-> pc])
    /\ clock' = clock + 1
    /\ writeFailures' = Failures(ok)

NoStatusWrite == UNCHANGED << statusFile, statusLog >>
NoResultWrite == UNCHANGED << resultFile, resultLog >>
NoWrite == UNCHANGED << statusFile, statusLog, resultFile, resultLog, clock, writeFailures >>

imports == << impl, config_imported, camera_interface_imported, cube_validation_imported >>
\* the variables of the classifier, of the launcher and of the store's direct
\* callers, which a session leaves alone
launcher == << threadPc, threadCamera, lastWriter, responses >>
endpoint == << request, response >>
outside == << hsv, classified, launcher, call, endpoint >>
locals == << i, colors, cube_state, cube_string, final_is_valid, success >>
history == << faceSource, cancelled, faceRaised, rawState, fixed_cube_state, fix_is_valid, verdict, fixOutcome,
              validateOutcome >>

(***************************************************************************)
(* Where an exception raised at the session's top level goes: the outer    *)
(* `except Exception` of integrated_camera_capture, or, in main, which has *)
(* no handler, out of the session.                                         *)
(***************************************************************************)
Raise ==
    IF impl = "main"
    THEN pc' = "done" /\ escaped' = TRUE
    ELSE pc' = "except" /\ escaped' = escaped

\* the same inside the loop body's try block: the inner `except Exception`
RaiseInFace ==
    IF impl = "main"
    THEN pc' = "done" /\ escaped' = TRUE
    ELSE pc' = "face_except" /\ escaped' = escaped

NoCall == [fn |-> "none", status |-> "", message |-> NoMessage, progress |-> 0,
           cube_state |-> << >>, cube_string |-> << >>, is_valid |-> FALSE]

\* an image as the endpoint receives it: `kind` tells what the `image` field of
\* the body holds, the other fields describe the picture it encodes
NoImage == [kind |-> "absent", data_url |-> FALSE, mode |-> "", width |-> 0, height |-> 0,
            cells |-> << >>]
NoRequest == [body |-> FALSE, image |-> NoImage, face |-> "absent"]
NoResponse == [code |-> 0, fields |-> {}, success |-> FALSE, colors |-> << >>,
               cube_notation |-> << >>, face |-> ""]

\* no detect-colors request received
EndpointIdle ==
    /\ request = NoRequest
    /\ response = NoResponse

\* no launch request served
LauncherIdle ==
    /\ threadPc = << >>
    /\ threadCamera = << >>
    /\ lastWriter = 0
    /\ responses = << >>

\* no sample classified, no launch request served, no direct call of the store
OutsideIdle ==
    /\ hsv = << 0, 0, 0 >>
    /\ classified = "unset"
    /\ LauncherIdle
    /\ call = NoCall
    /\ EndpointIdle

(***************************************************************************)
(* Init: the modules are imported, no session has run.                     *)
(***************************************************************************)
Init ==
    /\ OutsideIdle
    /\ \E s \in ImportStates :
        /\ impl = s.impl
        /\ config_imported = s.config
        /\ camera_interface_imported = s.camera
        /\ cube_validation_imported = s.validation
    /\ pc = "entry"
    /\ i = 0
    /\ colors = NoColors
    /\ cube_state = << >>
    /\ cube_string = << >>
    /\ final_is_valid = FALSE
    /\ success = FALSE
    /\ camera = "none"
    /\ dirExists \in BOOLEAN
    /\ statusFile = AbsentStatus
    /\ resultFile \in (IF dirExists THEN {AbsentResult, StaleResult} ELSE {AbsentResult})
    /\ clock = 1
    /\ writeFailures = 0
    /\ statusLog = << >>
    /\ resultLog = << >>
    /\ releaseCount = 0
    /\ faceSource = << >>
    /\ cancelled = FALSE
    /\ faceRaised = {}
    /\ rawState = << >>
    /\ fixed_cube_state = << >>
    /\ fix_is_valid = FALSE
    /\ verdict = "none"
    /\ fixOutcome = "none"
    /\ validateOutcome = "none"
    /\ escaped = FALSE

(***************************************************************************)
(* The session, one action per step of its code.  Line numbers are those   *)
(* of src/backend_api.py; the other two copies differ where noted.         *)
(***************************************************************************)

\* 317-320 (root): `if not BACKEND_AVAILABLE: raise Exception(...)` inside the try;
\* api 215-223: two guards that write `error` and return; main 80-84: no guard
SessionEntry ==
    /\ pc = "entry"
    /\ \/ /\ impl = "root"
          /\ pc' = IF BACKEND_AVAILABLE THEN "ensure_dir" ELSE "except"
          /\ NoWrite
       \/ /\ impl = "api" /\ ~BACKEND_AVAILABLE
          /\ \E ok \in WriteOutcomes :
                update_status("error", Msg("Backend modules not available"), 0, ok)
          /\ NoResultWrite
          /\ pc' = "done"
       \/ /\ impl = "api" /\ BACKEND_AVAILABLE /\ ~camera_functions_defined
          /\ \E ok \in WriteOutcomes :
                update_status("error", Msg("Camera interface functions not available"), 0, ok)
          /\ NoResultWrite
          /\ pc' = "done"
       \/ /\ impl = "api" /\ BACKEND_AVAILABLE /\ camera_functions_defined
          /\ pc' = "ensure_dir"
          /\ NoWrite
       \/ /\ impl = "main"
          /\ pc' = "ensure_dir"
          /\ NoWrite
    /\ UNCHANGED << outside, imports, locals, history, camera, dirExists, releaseCount, escaped >>

\* 323, 446-449: ensure_output_directory(); os.makedirs may raise
ensure_output_directory ==
    /\ pc = "ensure_dir"
    /\ \/ /\ dirExists' = TRUE
          /\ pc' = "starting"
          /\ UNCHANGED << writeFailures, escaped >>
       \/ /\ ~dirExists
          /\ writeFailures < MaxWriteFailures
          /\ writeFailures' = writeFailures + 1
          /\ dirExists' = dirExists
          /\ Raise
    /\ UNCHANGED << outside, imports, locals, history, camera, releaseCount,
                    statusFile, statusLog, resultFile, resultLog, clock >>

\* a start that also clears the result file of the previous session
StatusStarting_ResetResult ==
    /\ pc = "starting"
    /\ \E ok \in WriteOutcomes :
          update_status("starting", Msg("Initializing camera system..."), 0, ok)
    /\ resultFile' = AbsentResult
    /\ resultLog' = resultLog
    /\ pc' = "open_camera"
    /\ UNCHANGED << outside, imports, locals, history, camera, dirExists, releaseCount, escaped >>

\* 324: update_status("starting", "Initializing camera system...")
StatusStarting ==
    /\ pc = "starting"
    /\ \E ok \in WriteOutcomes :
          update_status("starting", Msg("Initializing camera system..."), 0, ok)
    /\ NoResultWrite
    /\ pc' = "open_camera"
    /\ UNCHANGED << outside, imports, locals, history, camera, dirExists, releaseCount, escaped >>

\* 328-329: cam = cv2.VideoCapture(0); cam.isOpened()
OpenCamera ==
    /\ pc = "open_camera"
    /\ \E opened \in BOOLEAN :
          /\ camera' = IF opened THEN "open" ELSE "failed"
          /\ pc' = IF opened THEN "status_ready" ELSE "camera_error"
    /\ NoWrite
    /\ UNCHANGED << outside, imports, locals, history, dirExists, releaseCount, escaped >>

\* the camera-open failure branch without its `return`
CameraNotAccessible_NoReturn ==
    /\ pc = "camera_error"
    /\ \E ok \in WriteOutcomes :
          update_status("error", Msg("Camera not accessible"), 0, ok)
    /\ NoResultWrite
    /\ pc' = "status_ready"
    /\ UNCHANGED << outside, imports, locals, history, camera, dirExists, releaseCount, escaped >>

\* 330-331: update_status("error", "Camera not accessible..."); return
CameraNotAccessible ==
    /\ pc = "camera_error"
    /\ \E ok \in WriteOutcomes :
          update_status("error", Msg("Camera not accessible"), 0, ok)
    /\ NoResultWrite
    /\ pc' = "done"
    /\ UNCHANGED << outside, imports, locals, history, camera, dirExists, releaseCount, escaped >>

\* 334-345: cam.set(...); cube_state = []; update_status("ready", "Ready to capture 6 faces", 0)
StatusReady ==
    /\ pc = "status_ready"
    /\ \E ok \in WriteOutcomes :
          update_status("ready", FaceMsg("Ready to capture faces", "", 0, Len(face_order)), 0, ok)
    /\ NoResultWrite
    /\ cube_state' = << >>
    /\ i' = 0
    /\ pc' = "loop_head"
    /\ UNCHANGED << outside, imports, colors, cube_string, final_is_valid, success, history,
                    camera, dirExists, releaseCount, escaped >>

\* the status written at the head of the loop body: "ready" (root 352, api 253),
\* "capturing" (main 114)
LoopStatus == IF impl = "main" THEN "capturing" ELSE "ready"

\* a loop head that goes to the preview without writing the status
LoopHead_Silent ==
    /\ pc = "loop_head"
    /\ i < Len(face_order)
    /\ NoWrite
    /\ pc' = "preview"
    /\ UNCHANGED << outside, imports, locals, history, camera, dirExists, releaseCount, escaped >>

\* 350-352: for i, face in enumerate(face_order): progress = (i / 6) * 100; update_status(...)
LoopHead ==
    /\ pc = "loop_head"
    /\ i < Len(face_order)
    /\ \E ok \in WriteOutcomes :
          update_status(LoopStatus,
                        FaceMsg("Ready to capture face", face_order[i + 1], i + 1, Len(face_order)),
                        FaceProgress(i), ok)
    /\ NoResultWrite
    /\ pc' = "preview"
    /\ UNCHANGED << outside, imports, locals, history, camera, dirExists, releaseCount, escaped >>

\* 358: show_live_preview(cam, face): True (SPACE), False (ESC), or an exception
ShowLivePreview ==
    /\ pc = "preview"
    /\ \/ /\ pc' = "capture"
          /\ UNCHANGED << cancelled, faceRaised, escaped >>
       \/ /\ pc' = "cancel_status"
          /\ cancelled' = TRUE
          /\ UNCHANGED << faceRaised, escaped >>
       \/ /\ RaiseInFace
          /\ faceRaised' = faceRaised \cup {i}
          /\ UNCHANGED cancelled
    /\ NoWrite
    /\ UNCHANGED << outside, imports, locals, faceSource, rawState, fixed_cube_state,
                    fix_is_valid, verdict, fixOutcome, validateOutcome, camera, dirExists, releaseCount >>

\* the cancel branch without its `break`: the loop body goes on to capture_face
StatusCancelled_NoBreak ==
    /\ pc = "cancel_status"
    /\ \E ok \in WriteOutcomes :
          update_status("cancelled", Msg("Capture cancelled by user"), 0, ok)
    /\ NoResultWrite
    /\ pc' = "capture"
    /\ UNCHANGED << outside, imports, locals, history, camera, dirExists, releaseCount, escaped >>

\* 359-361: update_status("cancelled", "Capture cancelled by user"); break
StatusCancelled ==
    /\ pc = "cancel_status"
    /\ \E ok \in WriteOutcomes :
          update_status("cancelled", Msg("Capture cancelled by user"), 0, ok)
    /\ NoResultWrite
    /\ pc' = "release"
    /\ UNCHANGED << outside, imports, locals, history, camera, dirExists, releaseCount, escaped >>

\* 364-365: colors = capture_face(cam); print(... len(colors) ...)
\* capture_face returns nine colours, returns None, or raises; len(None) raises
\* TypeError inside the try block (root, api); main does not take len(colors)
CaptureFace ==
    /\ pc = "capture"
    /\ \/ /\ \E r \in Readings : colors' = r
          /\ pc' = IF impl = "main" THEN "edit" ELSE "store"
          /\ UNCHANGED << faceRaised, escaped >>
       \/ /\ colors' = NoneColors
          /\ IF impl = "main"
             THEN pc' = "edit" /\ UNCHANGED << faceRaised, escaped >>
             ELSE RaiseInFace /\ faceRaised' = faceRaised \cup {i}
       \/ /\ colors' = colors
          /\ RaiseInFace
          /\ faceRaised' = faceRaised \cup {i}
    /\ NoWrite
    /\ UNCHANGED << outside, imports, i, cube_state, cube_string, final_is_valid, success,
                    faceSource, cancelled, rawState, fixed_cube_state, fix_is_valid, verdict, fixOutcome, validateOutcome,
                    camera, dirExists, releaseCount >>

\* a per-face handler that captures the same face again instead of falling back
FaceExcept_Retry ==
    /\ pc = "face_except"
    /\ \E ok \in WriteOutcomes :
          update_status("error",
                        FaceMsg("Failed to capture face", face_order[i + 1], i + 1, Len(face_order)),
                        0, ok)
    /\ NoResultWrite
    /\ pc' = "capture"
    /\ UNCHANGED << outside, imports, locals, history, camera, dirExists, releaseCount, escaped >>

\* 370-375: except Exception: update_status("error", ...); colors = ['White'] * 9
FaceExcept ==
    /\ pc = "face_except"
    /\ \E ok \in WriteOutcomes :
          update_status("error",
                        FaceMsg("Failed to capture face", face_order[i + 1], i + 1, Len(face_order)),
                        0, ok)
    /\ NoResultWrite
    /\ colors' = FallbackColors
    /\ faceSource' = Append(faceSource, "fallback")
    /\ pc' = "store"
    /\ UNCHANGED << outside, imports, i, cube_state, cube_string, final_is_valid, success,
                    cancelled, faceRaised, rawState, fixed_cube_state, fix_is_valid, verdict, fixOutcome, validateOutcome,
                    camera, dirExists, releaseCount, escaped >>

\* main 128-136: "Edit colors? (y/n)"; on y, colors = edit_face_colors(face, colors),
\* which returns nine colours or raises
EditColors ==
    /\ pc = "edit"
    /\ \/ /\ colors' = colors
          /\ pc' = "store"
          /\ UNCHANGED escaped
       \/ /\ \E r \in Readings : colors' = r
          /\ pc' = "store"
          /\ UNCHANGED escaped
       \/ /\ colors' = colors
          /\ Raise
    /\ NoWrite
    /\ UNCHANGED << outside, imports, i, cube_state, cube_string, final_is_valid, success, history,
                    camera, dirExists, releaseCount >>

\* a face store that rolls the extended cube_state back when the partial save fails
StoreFace_Rollback ==
    /\ pc = "store"
    /\ colors # NoneColors
    /\ \E ok \in WriteOutcomes :
          /\ save_cube_state(cube_state \o colors, CubeString(cube_state \o colors), FALSE, ok)
          /\ cube_state' = IF ok THEN cube_state \o colors ELSE cube_state
    /\ NoStatusWrite
    /\ faceSource' = IF Len(faceSource) = i THEN Append(faceSource, "captured")
                                            ELSE faceSource
    /\ i' = i + 1
    /\ pc' = IF i + 1 < Len(face_order) THEN "loop_head" ELSE "release"
    /\ UNCHANGED << outside, imports, colors, cube_string, final_is_valid, success,
                    cancelled, faceRaised, rawState, fixed_cube_state, fix_is_valid, verdict, fixOutcome, validateOutcome,
                    camera, dirExists, releaseCount, escaped >>

\* 378-385: cube_state.extend(colors); if cube_state: save_cube_state(cube_state, partial, False)
\* cube_state.extend(None) raises TypeError (main only: root and api never get here with None)
StoreFace ==
    /\ pc = "store"
    /\ IF colors = NoneColors
       THEN /\ Raise
            /\ NoWrite
            /\ UNCHANGED << i, cube_state, faceSource >>
       ELSE /\ cube_state' = cube_state \o colors
            /\ IF Len(cube_state') > 0
               THEN \E ok \in WriteOutcomes :
                        save_cube_state(cube_state', CubeString(cube_state'), FALSE, ok)
               ELSE /\ NoResultWrite
                    /\ UNCHANGED << clock, writeFailures >>
            /\ NoStatusWrite
            /\ faceSource' = IF Len(faceSource) = i THEN Append(faceSource, "captured")
                                                    ELSE faceSource
            /\ i' = i + 1
            /\ pc' = IF i + 1 < Len(face_order) THEN "loop_head" ELSE "release"
            /\ UNCHANGED escaped
    /\ UNCHANGED << outside, imports, colors, cube_string, final_is_valid, success,
                    cancelled, faceRaised, rawState, fixed_cube_state, fix_is_valid, verdict, fixOutcome, validateOutcome,
                    camera, dirExists, releaseCount >>

\* an end of the face loop that keeps the camera for the processing
ReleaseCamera_Skip ==
    /\ pc = "release"
    /\ rawState' = cube_state
    /\ pc' = "check_len"
    /\ NoWrite
    /\ UNCHANGED << outside, imports, locals, faceSource, cancelled, faceRaised,
                    fixed_cube_state, fix_is_valid, verdict, fixOutcome, validateOutcome,
                    camera, releaseCount, dirExists, escaped >>

\* 388-389: cam.release(); cv2.destroyAllWindows()
ReleaseCamera ==
    /\ pc = "release"
    /\ camera' = "released"
    /\ releaseCount' = releaseCount + 1
    /\ rawState' = cube_state
    /\ pc' = "check_len"
    /\ NoWrite
    /\ UNCHANGED << outside, imports, locals, faceSource, cancelled, faceRaised,
                    fixed_cube_state, fix_is_valid, verdict, fixOutcome, validateOutcome, dirExists, escaped >>

\* the incomplete branch without its `return`
StatusIncomplete_NoReturn ==
    /\ pc = "check_len"
    /\ Len(cube_state) # TotalStickers
    /\ \E ok \in WriteOutcomes :
          update_status("incomplete",
                        FaceMsg("Incomplete capture", "", Len(cube_state), TotalStickers), 0, ok)
    /\ NoResultWrite
    /\ cube_string' = CubeString(cube_state)
    /\ pc' = "fix_status"
    /\ UNCHANGED << outside, imports, i, colors, cube_state, final_is_valid, success, history,
                    camera, dirExists, releaseCount, escaped >>

\* 391-393: if len(cube_state) != 54: update_status("incomplete", ...); return
StatusIncomplete ==
    /\ pc = "check_len"
    /\ Len(cube_state) # TotalStickers
    /\ \E ok \in WriteOutcomes :
          update_status("incomplete",
                        FaceMsg("Incomplete capture", "", Len(cube_state), TotalStickers), 0, ok)
    /\ NoResultWrite
    /\ pc' = "done"
    /\ UNCHANGED << outside, imports, locals, history, camera, dirExists, releaseCount, escaped >>

\* 396-399: update_status("processing", ..., 90); cube_string = "".join(...)
StatusProcessing ==
    /\ pc = "check_len"
    /\ Len(cube_state) = TotalStickers
    /\ \E ok \in WriteOutcomes :
          update_status("processing", Msg("Processing and validating cube state..."),
                        Percent(90), ok)
    /\ NoResultWrite
    /\ cube_string' = CubeString(cube_state)
    /\ pc' = "fix_status"
    /\ UNCHANGED << outside, imports, i, colors, cube_state, final_is_valid, success, history,
                    camera, dirExists, releaseCount, escaped >>

\* 405-406: if len(cube_state) == 54: update_status("processing", ..., 95)
\* api 302-303: only when fix_cube_complete is not None; main 172: status "fixing"
StatusFixing ==
    /\ pc = "fix_status"
    /\ IF Len(cube_state) = TotalStickers
          /\ (impl = "api" => validation_functions_defined)
       THEN /\ \E ok \in WriteOutcomes :
                  update_status(IF impl = "main" THEN "fixing" ELSE "processing",
                                Msg("Processing captured colors..."), Percent(95), ok)
            /\ pc' = "fix_call"
            /\ UNCHANGED fixOutcome
       ELSE /\ UNCHANGED << statusFile, statusLog, clock, writeFailures >>
            /\ pc' = "validate"
            /\ fixOutcome' = "skipped"
    /\ NoResultWrite
    /\ UNCHANGED << outside, imports, locals, faceSource, cancelled, faceRaised, rawState,
                    fixed_cube_state, fix_is_valid, verdict,
                    validateOutcome, camera, dirExists, releaseCount, escaped >>

\* a reconciliation that drops the result of fix_cube_complete and keeps the raw capture
FixCubeComplete_KeepRaw ==
    /\ pc = "fix_call"
    /\ validation_functions_defined
    /\ \E out \in FixOutputs(cube_state) : fixed_cube_state' = out
    /\ \E flag \in BOOLEAN : fix_is_valid' = flag
    /\ fixOutcome' = "returned"
    /\ pc' = "validate"
    /\ NoWrite
    /\ UNCHANGED << outside, imports, locals, faceSource, cancelled, faceRaised, rawState,
                    verdict, validateOutcome, camera, dirExists, releaseCount, escaped >>

\* 407-416: try: fixed_cube_state, ... = fix_cube_complete(cube_state)
\*               cube_state = fixed_cube_state; cube_string = "".join(...)
\*          except Exception: keep the raw capture
\* root: an unbound name raises NameError, caught here; main 174: no try
FixCubeComplete ==
    /\ pc = "fix_call"
    /\ \/ /\ ~validation_functions_defined
          /\ fixOutcome' = "unavailable"
          /\ pc' = "validate"
          /\ UNCHANGED << cube_state, cube_string, fixed_cube_state, fix_is_valid, escaped >>
       \/ /\ validation_functions_defined
          /\ \E out \in FixOutputs(cube_state) : fixed_cube_state' = out
          /\ \E flag \in BOOLEAN : fix_is_valid' = flag
          /\ cube_state' = fixed_cube_state'
          /\ cube_string' = CubeString(cube_state')
          /\ fixOutcome' = "returned"
          /\ pc' = "validate"
          /\ UNCHANGED escaped
       \/ /\ validation_functions_defined
          /\ fixOutcome' = "raised"
          /\ IF impl = "main" THEN Raise ELSE pc' = "validate" /\ UNCHANGED escaped
          /\ UNCHANGED << cube_state, cube_string, fixed_cube_state, fix_is_valid >>
    /\ NoWrite
    /\ UNCHANGED << outside, imports, i, colors, final_is_valid, success,
                    faceSource, cancelled, faceRaised, rawState, verdict, validateOutcome,
                    camera, dirExists, releaseCount >>

\* a validation that lets the reconciler's flag veto the validator's verdict
ValidateCubeState_TrustReconciler ==
    /\ pc = "validate"
    /\ \/ /\ validation_functions_defined
          /\ \E v \in BOOLEAN :
                /\ verdict' = IF v THEN "valid" ELSE "invalid"
                /\ final_is_valid' = (v /\ fix_is_valid)
          /\ validateOutcome' = "returned"
          /\ pc' = "save_final"
          /\ UNCHANGED escaped
       \/ /\ validation_functions_defined
          /\ validateOutcome' = "raised"
          /\ IF impl = "api"
             THEN final_is_valid' = FALSE /\ pc' = "save_final" /\ UNCHANGED escaped
             ELSE UNCHANGED final_is_valid /\ Raise
          /\ UNCHANGED verdict
       \/ /\ ~validation_functions_defined
          /\ validateOutcome' = "unavailable"
          /\ IF impl = "api"
             THEN final_is_valid' = FALSE /\ pc' = "save_final" /\ UNCHANGED escaped
             ELSE UNCHANGED final_is_valid /\ Raise
          /\ UNCHANGED verdict
    /\ NoWrite
    /\ UNCHANGED << outside, imports, i, colors, cube_state, cube_string, success,
                    faceSource, cancelled, faceRaised, rawState, fixed_cube_state, fix_is_valid,
                    fixOutcome, camera, dirExists, releaseCount >>

\* 419: final_is_valid = validate_cube_state(cube_state)        (root: no guard, no try)
\* api 314-319: final_is_valid = False; guarded by `is not None` and a try
\* main 204: no try
ValidateCubeState ==
    /\ pc = "validate"
    /\ \/ /\ validation_functions_defined
          /\ \E v \in BOOLEAN :
                /\ verdict' = IF v THEN "valid" ELSE "invalid"
                /\ final_is_valid' = v
          /\ validateOutcome' = "returned"
          /\ pc' = "save_final"
          /\ UNCHANGED escaped
       \/ /\ validation_functions_defined
          /\ validateOutcome' = "raised"
          /\ IF impl = "api"
             THEN final_is_valid' = FALSE /\ pc' = "save_final" /\ UNCHANGED escaped
             ELSE UNCHANGED final_is_valid /\ Raise
          /\ UNCHANGED verdict
       \/ /\ ~validation_functions_defined
          /\ validateOutcome' = "unavailable"
          /\ IF impl = "api"
             THEN final_is_valid' = FALSE /\ pc' = "save_final" /\ UNCHANGED escaped
             ELSE UNCHANGED final_is_valid /\ Raise
          /\ UNCHANGED verdict
    /\ NoWrite
    /\ UNCHANGED << outside, imports, i, colors, cube_state, cube_string, success,
                    faceSource, cancelled, faceRaised, rawState, fixed_cube_state, fix_is_valid,
                    fixOutcome, camera, dirExists, releaseCount >>

\* a final save whose return value is taken for True
SaveFinal_AlwaysTrue ==
    /\ pc = "save_final"
    /\ \E ok \in WriteOutcomes :
          /\ save_cube_state(cube_state, cube_string, final_is_valid, ok)
          /\ success' = TRUE
    /\ NoStatusWrite
    /\ pc' = "final_status"
    /\ UNCHANGED << outside, imports, i, colors, cube_state, cube_string, final_is_valid, history,
                    camera, dirExists, releaseCount, escaped >>

\* 422: success = save_cube_state(cube_state, cube_string, final_is_valid)
SaveFinal ==
    /\ pc = "save_final"
    /\ \E ok \in WriteOutcomes :
          /\ save_cube_state(cube_state, cube_string, final_is_valid, ok)
          /\ success' = ok
    /\ NoStatusWrite
    /\ pc' = "final_status"
    /\ UNCHANGED << outside, imports, i, colors, cube_state, cube_string, final_is_valid, history,
                    camera, dirExists, releaseCount, escaped >>

\* a final status that reports `complete` whatever the final save returned
FinalStatus_Unconditional ==
    /\ pc = "final_status"
    /\ \E ok \in WriteOutcomes :
          update_status("complete",
                        FaceMsg(IF final_is_valid THEN "captured (Valid cube)"
                                                  ELSE "captured (Validation failed)",
                                "", Len(cube_state), TotalStickers),
                        Percent(100), ok)
    /\ NoResultWrite
    /\ pc' = "done"
    /\ UNCHANGED << outside, imports, locals, history, camera, dirExists, releaseCount, escaped >>

\* 424-435: if success: update_status("complete", ..., 100) else: update_status("error", ...)
FinalStatus ==
    /\ pc = "final_status"
    /\ \E ok \in WriteOutcomes :
          IF success
          THEN update_status("complete",
                             FaceMsg(IF final_is_valid THEN "captured (Valid cube)"
                                                       ELSE "captured (Validation failed)",
                                     "", Len(cube_state), TotalStickers),
                             Percent(100), ok)
          ELSE update_status("error", Msg("Failed to save results"), 0, ok)
    /\ NoResultWrite
    /\ pc' = "done"
    /\ UNCHANGED << outside, imports, locals, history, camera, dirExists, releaseCount, escaped >>

\* 437-439: except Exception as e: update_status("error", "Camera capture failed: ...")
ExceptHandler ==
    /\ pc = "except"
    /\ \E ok \in WriteOutcomes :
          update_status("error", Msg("Camera capture failed"), 0, ok)
    /\ NoResultWrite
    /\ pc' = "done"
    /\ UNCHANGED << outside, imports, locals, history, camera, dirExists, releaseCount, escaped >>

Next ==
    \/ SessionEntry
    \/ ensure_output_directory
    \/ StatusStarting
    \/ OpenCamera
    \/ CameraNotAccessible
    \/ StatusReady
    \/ LoopHead
    \/ ShowLivePreview
    \/ StatusCancelled
    \/ CaptureFace
    \/ FaceExcept
    \/ EditColors
    \/ StoreFace
    \/ ReleaseCamera
    \/ StatusIncomplete
    \/ StatusProcessing
    \/ StatusFixing
    \/ FixCubeComplete
    \/ ValidateCubeState
    \/ SaveFinal
    \/ FinalStatus
    \/ ExceptHandler

Spec == Init /\ [][Next]_vars

(***************************************************************************)
(* The colour classifier of src/backend_api.py (130-174).                  *)
(*                                                                         *)
(* classify_color receives the mean of HSV pixels, in OpenCV's 8-bit       *)
(* ranges: H in 0..179, S and V in 0..255.  A mean of hues may be a half,  *)
(* so the model gives the hue in half units: hsv[1] = 2 * H.               *)
(***************************************************************************)
CubeColors == {"White", "Red", "Green", "Yellow", "Orange", "Blue"}

\* h = h * 2, for a hue given in half units
NormalizedHue(hsv_values) == (hsv_values[1] * 2) \div 2

\* the hue chain with a first band that takes the hue 350 too
HueColor_RedFrom350(h) ==
    IF h < 10 \/ h >= 350 THEN "Red"
    ELSE IF h < 25 THEN "Orange"
    ELSE IF h < 35 THEN "Yellow"
    ELSE IF h < 85 THEN "Green"
    ELSE IF h < 180 THEN "Blue"
    ELSE "Red"

\* the hue chain with bands closed at their upper end: a boundary hue stays in
\* the band below it
HueColor_ClosedBands(h) ==
    IF h <= 10 \/ h > 350 THEN "Red"
    ELSE IF h <= 25 THEN "Orange"
    ELSE IF h <= 35 THEN "Yellow"
    ELSE IF h <= 85 THEN "Green"
    ELSE IF h <= 180 THEN "Blue"
    ELSE IF h < 350 THEN "Red"
    ELSE "None"

\* 157-171: the if/elif chain on the hue; "None" when no branch is taken
HueColor(h) ==
    IF h < 10 \/ h > 350 THEN "Red"
    ELSE IF 10 <= h /\ h < 25 THEN "Orange"
    ELSE IF 25 <= h /\ h < 35 THEN "Yellow"
    ELSE IF 35 <= h /\ h < 85 THEN "Green"
    ELSE IF 85 <= h /\ h < 130 THEN "Blue"
    ELSE IF 130 <= h /\ h < 180 THEN "Blue"
    ELSE IF 180 <= h /\ h < 350 THEN "Red"
    ELSE "None"

\* a classify_color without the final `return 'White'`: falling off the end of
\* the function returns None
classify_color_NoFallback(hsv_values) ==
    LET h == NormalizedHue(hsv_values)
        s == hsv_values[2]
        v == hsv_values[3]
    IN  IF v > 200 /\ s < 50 THEN "White"
        ELSE IF v > 200 /\ 20 <= h /\ h <= 30 THEN "Yellow"
        ELSE IF s < 50 THEN "White"
        ELSE HueColor(h)

\* a classify_color without the high-brightness Yellow branch (150-151)
classify_color_NoBrightYellow(hsv_values) ==
    LET h == NormalizedHue(hsv_values)
        s == hsv_values[2]
    IN  IF s < 50 THEN "White"
        ELSE IF HueColor(h) # "None" THEN HueColor(h)
        ELSE "White"

\* a classify_color without lines 154-155: only a bright sample of low
\* saturation is White
classify_color_BrightWhiteOnly(hsv_values) ==
    LET h == NormalizedHue(hsv_values)
        s == hsv_values[2]
        v == hsv_values[3]
    IN  IF v > 200 /\ s < 50 THEN "White"
        ELSE IF v > 200 /\ 20 <= h /\ h <= 30 THEN "Yellow"
        ELSE IF HueColor(h) # "None" THEN HueColor(h)
        ELSE "White"

\* the tests classify_color makes on the hue, named by their line: 150 is the
\* high-brightness Yellow test, 158-170 are the tests of the if/elif chain
HueTestLines == {150, 158, 160, 162, 164, 166, 168, 170}

HueTest(line, h) ==
    CASE line = 150 -> 20 <= h /\ h <= 30
      [] line = 158 -> h < 10 \/ h > 350
      [] line = 160 -> 10 <= h /\ h < 25
      [] line = 162 -> 25 <= h /\ h < 35
      [] line = 164 -> 35 <= h /\ h < 85
      [] line = 166 -> 85 <= h /\ h < 130
      [] line = 168 -> 130 <= h /\ h < 180
      [] line = 170 -> 180 <= h /\ h < 350

\* the colour each test returns
TestColor(line) ==
    CASE line = 150 -> "Yellow"
      [] line = 158 -> "Red"
      [] line = 160 -> "Orange"
      [] line = 162 -> "Yellow"
      [] line = 164 -> "Green"
      [] line = 166 -> "Blue"
      [] line = 168 -> "Blue"
      [] line = 170 -> "Red"

\* the hue tests a sample satisfies; line 150 is only reached with v > 200
SatisfiedTests(hsv_values) ==
    { line \in HueTestLines :
        /\ line = 150 => hsv_values[3] > 200
        /\ HueTest(line, NormalizedHue(hsv_values)) }

\* 130-174: classify_color(hsv_values)
classify_color(hsv_values) ==
    LET h == NormalizedHue(hsv_values)
        s == hsv_values[2]
        v == hsv_values[3]
    IN  IF v > 200 /\ s < 50 THEN "White"
        ELSE IF v > 200 /\ 20 <= h /\ h <= 30 THEN "Yellow"
        ELSE IF s < 50 THEN "White"
        ELSE IF HueColor(h) # "None" THEN HueColor(h)
        ELSE "White"

\* the samples the classifier is tried on: every hue in half units, and the
\* saturations and brightnesses around the thresholds 50 and 200
HueInputs == 0..358
SaturationInputs == {0, 49, 50, 51, 128, 255}
ValueInputs == {0, 100, 200, 201, 255}

\* the session variables when no session runs and the caller is at `position`
SessionIdle(position) ==
    /\ pc = position
    /\ i = 0
    /\ colors = NoColors
    /\ cube_state = << >>
    /\ cube_string = << >>
    /\ final_is_valid = FALSE
    /\ success = FALSE
    /\ camera = "none"
    /\ statusFile = AbsentStatus
    /\ resultFile = AbsentResult
    /\ clock = 1
    /\ writeFailures = 0
    /\ statusLog = << >>
    /\ resultLog = << >>
    /\ releaseCount = 0
    /\ faceSource = << >>
    /\ cancelled = FALSE
    /\ faceRaised = {}
    /\ rawState = << >>
    /\ fixed_cube_state = << >>
    /\ fix_is_valid = FALSE
    /\ verdict = "none"
    /\ fixOutcome = "none"
    /\ validateOutcome = "none"
    /\ escaped = FALSE

\* the fallback of the imports (src/backend_api.py 50-63): nothing imported
NothingImported ==
    /\ impl = "root"
    /\ config_imported = FALSE
    /\ camera_interface_imported = FALSE
    /\ cube_validation_imported = FALSE

InitClassifier ==
    /\ hsv \in HueInputs \X SaturationInputs \X ValueInputs
    /\ classified = "unset"
    /\ LauncherIdle
    /\ call = NoCall
    /\ EndpointIdle
    /\ NothingImported
    /\ dirExists = FALSE
    /\ SessionIdle("classify")

\* 123: color = classify_color(avg_hsv)
Classify ==
    /\ pc = "classify"
    /\ classified' = classify_color(hsv)
    /\ pc' = "classified"
    /\ UNCHANGED << imports, locals, history, camera, dirExists, statusFile, resultFile,
                    clock, writeFailures, statusLog, resultLog, releaseCount, escaped,
                    hsv, launcher, call, endpoint >>

NextClassifier == Classify

SpecClassifier == InitClassifier /\ [][NextClassifier]_vars

(***************************************************************************)
(* POST /api/detect-colors (src/backend_api.py 65-128, 176-238;            *)
(* src/api/backend_api.py 64-92).                                          *)
(*                                                                         *)
(* A picture is a 3x3 grid of one-colour cells, as the test images of      *)
(* src/tests draw it: `cells` holds the nine colours row by row, as RGB    *)
(* triples in the decoded picture and as BGR or HSV triples after          *)
(* cv2.cvtColor.  Lossy encoding is not modelled: a decoded cell has the   *)
(* colour it was drawn with.                                               *)
(***************************************************************************)
Max(a, b) == IF a >= b THEN a ELSE b
Min(a, b) == IF a <= b THEN a ELSE b

\* 215: cv2.cvtColor(..., cv2.COLOR_RGB2BGR) on one pixel
RGB2BGR(p) == << p[3], p[2], p[1] >>

\* 93: cv2.cvtColor(image, cv2.COLOR_BGR2HSV) on one 8-bit pixel: V is the largest
\* channel, S = 255 * (V - min) / V, H is the hue angle halved, each rounded
BGR2HSV(p) ==
    LET b == p[1]
        g == p[2]
        r == p[3]
        v == Max(b, Max(g, r))
        d == v - Min(b, Min(g, r))
        angle == IF d = 0 THEN 0
                 ELSE IF v = r THEN 60 * (g - b)
                 ELSE IF v = g THEN 120 * d + 60 * (b - r)
                 ELSE 240 * d + 60 * (r - g)
        turned == IF angle < 0 THEN angle + 360 * d ELSE angle
    IN  << IF d = 0 THEN 0 ELSE ((turned + d) \div (2 * d)) % 180,
           IF v = 0 THEN 0 ELSE (2 * 255 * d + v) \div (2 * v),
           v >>

\* 215: image_cv = cv2.cvtColor(np.array(image_pil), cv2.COLOR_RGB2BGR), cell by cell
ImageBGR(image) ==
    [image EXCEPT !.cells = [k \in DOMAIN image.cells |-> RGB2BGR(image.cells[k])]]

\* 93: hsv = cv2.cvtColor(image, cv2.COLOR_BGR2HSV), cell by cell
ImageHSV(image) ==
    [image EXCEPT !.cells = [k \in DOMAIN image.cells |-> BGR2HSV(image.cells[k])]]

\* the cell a pixel lies in
CellOf(image, x, y) == 3 * ((3 * y) \div image.height) + ((3 * x) \div image.width) + 1

\* 111: sample_size = 20
sample_size == 20

\* the sticker centres listed with the columns in the outer loop
grid_positions_ColumnMajor(image) ==
    [k \in 1..FallbackLen |->
        LET col == (k - 1) \div 3
            row == (k - 1) % 3
        IN  << (image.width * (2 * col + 1)) \div 6, (image.height * (2 * row + 1)) \div 6 >>]

\* 99-105: for row in range(3): for col in range(3):
\*             grid_positions.append((int(width * (col + 0.5) / 3), int(height * (row + 0.5) / 3)))
grid_positions(image) ==
    [k \in 1..FallbackLen |->
        LET row == (k - 1) \div 3
            col == (k - 1) % 3
        IN  << (image.width * (2 * col + 1)) \div 6, (image.height * (2 * row + 1)) \div 6 >>]

\* a sample region that is not clipped to the picture
sample_region_Unclipped(image, centre) ==
    [x1 |-> centre[1] - sample_size \div 2,
     y1 |-> centre[2] - sample_size \div 2,
     x2 |-> centre[1] + sample_size \div 2,
     y2 |-> centre[2] + sample_size \div 2]

\* 112-115: x1 = max(0, x - sample_size // 2) ... y2 = min(height, y + sample_size // 2)
sample_region(image, centre) ==
    [x1 |-> Max(0, centre[1] - sample_size \div 2),
     y1 |-> Max(0, centre[2] - sample_size \div 2),
     x2 |-> Min(image.width, centre[1] + sample_size \div 2),
     y2 |-> Min(image.height, centre[2] + sample_size \div 2)]

\* 118: the colours of the pixels of hsv[y1:y2, x1:x2]; a slice keeps the indices
\* that exist in the picture
color_sample(image, centre) ==
    LET region == sample_region(image, centre)
    IN  { image.cells[CellOf(image, x, y)] :
            x \in Max(0, region.x1)..(Min(image.width, region.x2) - 1),
            y \in Max(0, region.y1)..(Min(image.height, region.y2) - 1) }

\* 122: np.mean over a sample of one colour is that colour; the classifier gets
\* the hue in half units
avg_hsv(sample) ==
    LET pixel == CHOOSE c \in sample : TRUE
    IN  << 2 * pixel[1], pixel[2], pixel[3] >>

\* 88-128: detect_colors_fallback(image)
detect_colors_fallback(image) ==
    LET hsv_image == ImageHSV(image)
    IN  [k \in 1..FallbackLen |->
            LET sample == color_sample(hsv_image, grid_positions(image)[k])
            IN  IF sample # {} THEN classify_color(avg_hsv(sample)) ELSE "White"]

\* 65-86: detect_colors_from_image(image).  capture_face_from_image is imported by
\* no statement of the file: with BACKEND_AVAILABLE the call raises NameError, which
\* the except clause turns into the fallback
detect_colors_from_image(image) == detect_colors_fallback(image)

\* 221: COLOR_TO_CUBE.get(color, 'U')
NotationOrU(color) == IF color \in DOMAIN COLOR_TO_CUBE THEN COLOR_TO_CUBE[color] ELSE "U"

\* a decoder that takes any string for a picture
Decodable_Lenient(image_field) == TRUE

\* 206-212: base64.b64decode and Image.open succeed on an encoded picture only
Decodable(image_field) == image_field.kind = "image"

\* the pictures of the requests: the swatches of the tests and two one-colour pictures
White_RGB == << 255, 255, 255 >>
Red_RGB == << 255, 0, 0 >>
Green_RGB == << 0, 255, 0 >>
Yellow_RGB == << 255, 255, 0 >>
Orange_RGB == << 255, 165, 0 >>
Blue_RGB == << 0, 0, 255 >>
Black_RGB == << 0, 0, 0 >>

ScenarioA == << White_RGB, Red_RGB, Green_RGB, Yellow_RGB, Orange_RGB, Blue_RGB,
                White_RGB, Red_RGB, Green_RGB >>
ScenarioA_Names == << "White", "Red", "Green", "Yellow", "Orange", "Blue",
                      "White", "Red", "Green" >>
Uniform(c) == [k \in 1..FallbackLen |-> c]
CellPatterns == { ScenarioA, Uniform(Black_RGB), Uniform(Orange_RGB) }
ImageSizes == {1, 2, 3, 19, 20, 21, 60, 300, 600}

\* every sample region of the picture holds one colour only, so that its mean is exact
ExactlySampled(image) ==
    \A k \in 1..FallbackLen :
        Cardinality(color_sample(image, grid_positions(image)[k])) = 1

\* every cell of the grid has pixels in the picture: three columns and three rows
CellsDrawn(image) == image.width >= 3 /\ image.height >= 3

\* a picture of one colour, of any size
OneColour(image) == \A k \in 1..FallbackLen : image.cells[k] = image.cells[1]

Pictures ==
    { image \in [kind : {"image"}, data_url : BOOLEAN, mode : {"RGB", "L"},
                 width : ImageSizes, height : ImageSizes, cells : CellPatterns] :
        ExactlySampled(image) /\ (CellsDrawn(image) \/ OneColour(image)) }

ImageFields ==
    Pictures \cup { [NoImage EXCEPT !.kind = kd] : kd \in {"absent", "garbage", "not_image"} }

\* the bodies: none or empty, or a JSON object with or without `image` and `face`
Requests ==
    {NoRequest} \cup [body : {TRUE}, image : ImageFields, face : {"absent", "front", "top"}]

InitDetect ==
    /\ hsv = << 0, 0, 0 >>
    /\ classified = "unset"
    /\ LauncherIdle
    /\ call = NoCall
    /\ request \in Requests
    /\ response = NoResponse
    /\ \E st \in ImportStates :
        /\ st.impl \in {"root", "api"}
        /\ impl = st.impl
        /\ config_imported = st.config
        /\ camera_interface_imported = st.camera
        /\ cube_validation_imported = st.validation
    /\ dirExists = FALSE
    /\ SessionIdle("request")

Failure(code) ==
    [NoResponse EXCEPT !.code = code, !.fields = {"success", "error"}]

\* 195-238: detect_colors(); api 83-92: 503 without the backend, 501 otherwise
\* 215: np.array of a grayscale picture (mode L) has no channel axis, and
\* cv2.cvtColor(..., COLOR_RGB2BGR) raises on it
detect_colors ==
    /\ pc = "request"
    /\ pc' = "responded"
    /\ response' =
         IF impl = "api"
         THEN Failure(IF BACKEND_AVAILABLE THEN 501 ELSE 503)
         ELSE IF ~request.body \/ request.image.kind = "absent"
         THEN Failure(400)
         ELSE IF ~Decodable(request.image)
         THEN Failure(500)
         ELSE IF request.image.mode = "L"
         THEN Failure(500)
         ELSE LET image_cv == ImageBGR(request.image)
                  detected_colors == detect_colors_from_image(image_cv)
              IN  [code |-> 200,
                   fields |-> {"success", "colors", "cube_notation", "face", "message"},
                   success |-> TRUE,
                   colors |-> detected_colors,
                   cube_notation |-> [k \in DOMAIN detected_colors |->
                                         NotationOrU(detected_colors[k])],
                   face |-> IF request.face = "absent" THEN "unknown" ELSE request.face]
    /\ UNCHANGED << imports, locals, history, camera, dirExists, statusFile, resultFile,
                    clock, writeFailures, statusLog, resultLog, releaseCount, escaped,
                    hsv, classified, launcher, call, request >>

NextDetect == detect_colors

SpecDetect == InitDetect /\ [][NextDetect]_vars

(***************************************************************************)
(* The status/result store called directly (src/backend_api.py 446-489,    *)
(* the same text in src/api/backend_api.py 345-389 and                     *)
(* src/api/web_integrated_camera.py 38-78): any sequence of                *)
(* ensure_output_directory, update_status and save_cube_state calls.       *)
(***************************************************************************)
\* how many calls of the store one behaviour makes
MaxCalls == 3

\* the (status, message, progress) a caller passes to update_status
StatusArgs ==
    { << "starting", Msg("Initializing camera system..."), 0 >>,
      << "ready", FaceMsg("Ready to capture face", "Red", 2, Len(face_order)), FaceProgress(1) >>,
      << "complete", Msg("captured (Valid cube)"), Percent(100) >> }

\* the cube states a caller passes to save_cube_state, with their cube strings
StateArgs == { << >>, ReadingA, ReadingA \o ReadingB }

InitStore ==
    /\ hsv = << 0, 0, 0 >>
    /\ classified = "unset"
    /\ LauncherIdle
    /\ call = NoCall
    /\ EndpointIdle
    /\ NothingImported
    /\ dirExists \in BOOLEAN
    /\ SessionIdle("caller")

storeFrame == << imports, pc, i, colors, cube_state, cube_string, final_is_valid, success,
                 history, camera, releaseCount, escaped, hsv, classified, launcher,
                 endpoint >>

\* 446-449: ensure_output_directory()
CallEnsureOutputDirectory ==
    /\ pc = "caller"
    /\ clock <= MaxCalls
    /\ dirExists' = TRUE
    /\ clock' = clock + 1
    /\ call' = [NoCall EXCEPT !.fn = "ensure_output_directory"]
    /\ UNCHANGED << statusFile, statusLog, resultFile, resultLog, writeFailures >>
    /\ UNCHANGED storeFrame

\* 451-467: update_status(status, message, progress)
CallUpdateStatus ==
    /\ pc = "caller"
    /\ clock <= MaxCalls
    /\ \E a \in StatusArgs, ok \in WriteOutcomes :
          /\ update_status(a[1], a[2], a[3], ok)
          /\ call' = [NoCall EXCEPT !.fn = "update_status", !.status = a[1],
                                    !.message = a[2], !.progress = a[3]]
    /\ NoResultWrite
    /\ UNCHANGED dirExists
    /\ UNCHANGED storeFrame

\* 469-489: save_cube_state(cube_state, cube_string, is_valid)
CallSaveCubeState ==
    /\ pc = "caller"
    /\ clock <= MaxCalls
    /\ \E state \in StateArgs, valid \in BOOLEAN, ok \in WriteOutcomes :
          /\ save_cube_state(state, CubeString(state), valid, ok)
          /\ call' = [NoCall EXCEPT !.fn = "save_cube_state", !.cube_state = state,
                                    !.cube_string = CubeString(state), !.is_valid = valid]
    /\ NoStatusWrite
    /\ UNCHANGED dirExists
    /\ UNCHANGED storeFrame

NextStore ==
    \/ CallEnsureOutputDirectory
    \/ CallUpdateStatus
    \/ CallSaveCubeState

SpecStore == InitStore /\ [][NextStore]_vars

(***************************************************************************)
(* The launcher: POST /api/launch-integrated-camera                         *)
(* (src/backend_api.py 286-310, src/api/backend_api.py 172-208).  Every     *)
(* request that passes the guards starts a daemon thread that runs          *)
(* integrated_camera_capture.  The threads run the session reduced to the   *)
(* steps that take the camera and write the status file: entry, camera      *)
(* open, the face loop as one step, release and final status.               *)
(***************************************************************************)
\* how many launch requests one behaviour serves
MaxRequests == 2

Threads == DOMAIN threadPc
ActiveThreads == { t \in Threads : threadPc[t] # "done" }
CameraHolders == { t \in Threads : threadCamera[t] = "open" }

LauncherImpls == {"root", "api"}

InitLaunch ==
    /\ hsv = << 0, 0, 0 >>
    /\ classified = "unset"
    /\ LauncherIdle
    /\ call = NoCall
    /\ EndpointIdle
    /\ \E s \in ImportStates :
        /\ s.impl \in LauncherImpls
        /\ impl = s.impl
        /\ config_imported = s.config
        /\ camera_interface_imported = s.camera
        /\ cube_validation_imported = s.validation
    /\ dirExists \in BOOLEAN
    /\ SessionIdle("server")

launchFrame == << imports, pc, locals, history, camera, releaseCount, escaped,
                  hsv, classified, call, endpoint, resultFile, resultLog >>

\* a launcher that checks the backend configuration only
LaunchGuard_ConfigOnly ==
    impl = "api" => BACKEND_AVAILABLE

\* api 175-185: the two guards that answer 503
LaunchGuard ==
    impl = "api" => (BACKEND_AVAILABLE /\ camera_functions_defined)

\* 287-310: launch_integrated_camera(): thread.start() and 200, or 500 when
\* starting the thread raises; api 175-185: 503 when a guard fails
launch_integrated_camera ==
    /\ Len(responses) < MaxRequests
    /\ \/ /\ ~LaunchGuard
          /\ responses' = Append(responses, 503)
          /\ UNCHANGED << threadPc, threadCamera >>
       \/ /\ LaunchGuard
          /\ responses' = Append(responses, 200)
          /\ threadPc' = Append(threadPc, "entry")
          /\ threadCamera' = Append(threadCamera, "none")
       \/ /\ LaunchGuard
          /\ responses' = Append(responses, 500)
          /\ UNCHANGED << threadPc, threadCamera >>
    /\ UNCHANGED << lastWriter, dirExists, statusFile, statusLog, clock, writeFailures >>
    /\ UNCHANGED launchFrame

\* a status write of thread t; the launcher's threads meet no injected write failure
ThreadStatus(t, status, message, progress) ==
    /\ update_status(status, message, progress, dirExists')
    /\ lastWriter' = t

\* 317-324: the availability check, ensure_output_directory(), update_status("starting")
ThreadEntry(t) ==
    /\ threadPc[t] = "entry"
    /\ IF BACKEND_AVAILABLE /\ (impl = "api" => camera_functions_defined)
       THEN /\ dirExists' = TRUE
            /\ ThreadStatus(t, "starting", Msg("Initializing camera system..."), 0)
            /\ threadPc' = [threadPc EXCEPT ![t] = "open_camera"]
       ELSE /\ dirExists' = dirExists
            /\ ThreadStatus(t, "error", Msg("Backend modules not available"), 0)
            /\ threadPc' = [threadPc EXCEPT ![t] = "done"]
    /\ UNCHANGED << threadCamera, responses >>
    /\ UNCHANGED launchFrame

\* 328-345: cam = cv2.VideoCapture(0); error and return, or update_status("ready", ...)
\* whether a second VideoCapture(0) opens while another thread holds the device
\* depends on the platform's capture backend: either outcome is possible
ThreadOpenCamera(t) ==
    /\ threadPc[t] = "open_camera"
    /\ dirExists' = dirExists
    /\ \E opened \in BOOLEAN :
          IF opened
          THEN /\ threadCamera' = [threadCamera EXCEPT ![t] = "open"]
               /\ ThreadStatus(t, "ready", FaceMsg("Ready to capture faces", "", 0, Len(face_order)), 0)
               /\ threadPc' = [threadPc EXCEPT ![t] = "loop"]
          ELSE /\ threadCamera' = [threadCamera EXCEPT ![t] = "failed"]
               /\ ThreadStatus(t, "error", Msg("Camera not accessible"), 0)
               /\ threadPc' = [threadPc EXCEPT ![t] = "done"]
    /\ UNCHANGED responses
    /\ UNCHANGED launchFrame

\* 350-385: the face loop, taken as one step: its status writes end with `ready`
\* (all faces stored), `cancelled` (ESC) or `error` (fallback face)
ThreadFaceLoop(t) ==
    /\ threadPc[t] = "loop"
    /\ dirExists' = dirExists
    /\ \E status \in {"ready", "cancelled", "error"} :
          ThreadStatus(t, status, Msg("face loop"), 0)
    /\ threadPc' = [threadPc EXCEPT ![t] = "release"]
    /\ UNCHANGED << threadCamera, responses >>
    /\ UNCHANGED launchFrame

\* 388-439: cam.release(), then the statuses up to the last one of the session
ThreadRelease(t) ==
    /\ threadPc[t] = "release"
    /\ dirExists' = dirExists
    /\ threadCamera' = [threadCamera EXCEPT ![t] = "released"]
    /\ \E status \in {"incomplete", "complete", "error"} :
          ThreadStatus(t, status, Msg("end of session"),
                       IF status = "complete" THEN Percent(100) ELSE 0)
    /\ threadPc' = [threadPc EXCEPT ![t] = "done"]
    /\ UNCHANGED responses
    /\ UNCHANGED launchFrame

NextLaunch ==
    \/ launch_integrated_camera
    \/ \E t \in Threads : ThreadEntry(t)
    \/ \E t \in Threads : ThreadOpenCamera(t)
    \/ \E t \in Threads : ThreadFaceLoop(t)
    \/ \E t \in Threads : ThreadRelease(t)

SpecLaunch == InitLaunch /\ [][NextLaunch]_vars

(***************************************************************************)
(* Properties of the session.                                              *)
(***************************************************************************)
Last(s) == s[Len(s)]
\* the result file was written by this session: its clock starts at 1, and what an
\* earlier session left is stamped 0
ResultWritten == resultFile.timestamp > 0
Terminal == {"complete", "cancelled", "incomplete", "error"}
InFaceLoop == pc \in {"loop_head", "preview", "cancel_status", "capture", "face_except",
                      "edit", "store"}
LoopEnded == pc \in {"release", "check_len"}
CameraAcquired == camera \in {"open", "released"}
\* the nine stickers of the face appended at loop index f (0-based)
FaceOf(state, f) == SubSeq(state, FallbackLen * f + 1, FallbackLen * (f + 1))

\* C1: while the face loop runs and when it has ended, after i completed faces
\* cube_state holds exactly 9 * i colours, 0 <= i <= 6, whether the faces were
\* captured or replaced by the White fallback
C1_LengthIsNineTimesFaces ==
    (InFaceLoop \/ LoopEnded) =>
        /\ i \in 0..Len(face_order)
        /\ Len(cube_state) = FallbackLen * i
        /\ Len(faceSource) \in {i, i + 1}
        /\ Len(faceSource) = i + 1 => (pc = "store" /\ Last(faceSource) = "fallback")

\* C1 witness: a loop boundary after a fallback face and a captured face
C1_Witness ==
    /\ pc = "loop_head"
    /\ i = 2
    /\ faceSource = << "fallback", "captured" >>
    /\ Len(cube_state) = 18

\* C2 (as claimed): a session in which the user cancelled ends with `cancelled`
\* as the last status it wrote
C2_CancelledIsLastStatus ==
    (pc = "done" /\ cancelled) => Last(statusLog) = "cancelled"

\* C3 (as claimed): a session that acquired the camera has released it exactly
\* once when it ends, and never more than once before
C3_ReleasedExactlyOnce ==
    /\ releaseCount <= 1
    /\ (pc = "done" /\ CameraAcquired) => releaseCount = 1

\* C4: when the camera cannot be opened the session writes `error` as its last
\* status and stops: no face is captured, save_cube_state is never called, the
\* result file is untouched and cam.release() is not executed twice
C4_CameraOpenFailure ==
    camera = "failed" =>
        /\ pc \in {"camera_error", "done"}
        /\ pc = "done" => Last(statusLog) = "error"
        /\ cube_state = << >>
        /\ faceSource = << >>
        /\ resultLog = << >>
        /\ ~ResultWritten
        /\ releaseCount < 2
        /\ ~escaped

\* C4 witness: the session has ended after the camera failed to open
C4_Witness ==
    /\ pc = "done"
    /\ camera = "failed"
    /\ statusLog = << "starting", "error" >>

\* C5: once the face loop has ended with len(cube_state) # 54 the session only
\* writes `incomplete` and stops: fix_cube_complete and validate_cube_state are
\* not called and no save_cube_state call other than the per-face ones is made
C5_IncompleteStops ==
    (camera = "released" /\ Len(rawState) # TotalStickers) =>
        /\ pc \in {"check_len", "done"}
        /\ pc = "done" => Last(statusLog) = "incomplete"
        /\ fixOutcome = "none"
        /\ validateOutcome = "none"
        /\ \A k \in 1..Len(resultLog) : resultLog[k].at = "store"
        /\ cube_state = rawState

\* C5 witness: a session cancelled at its third face has ended
C5_Witness ==
    /\ pc = "done"
    /\ camera = "released"
    /\ Len(rawState) = 18
    /\ Last(statusLog) = "incomplete"

\* C6: save_cube_state calls made at a face boundary pass is_valid = False; a
\* call with is_valid = True is the single final call, made with 54 colours; so
\* the result file is written with is_valid = True only by that final write, and
\* never in a session that wrote `incomplete`
C6_OnlyFinalWriteIsValid ==
    /\ \A k \in 1..Len(resultLog) :
          /\ resultLog[k].at = "store" => ~resultLog[k].is_valid
          /\ resultLog[k].at = "save_final" => (k = Len(resultLog) /\ resultLog[k].stickers = TotalStickers)
          /\ resultLog[k].at \in {"store", "save_final"}
    /\ (ResultWritten /\ resultFile.is_valid) =>
          /\ pc \in {"final_status", "done"}
          /\ resultFile.total_stickers = TotalStickers
          /\ Last(resultLog).at = "save_final"
    /\ (\E k \in 1..Len(statusLog) : statusLog[k] = "incomplete") =>
          ~(ResultWritten /\ resultFile.is_valid)

\* C6 witness: the final write stored is_valid = True after six partial writes
C6_Witness ==
    /\ pc = "done"
    /\ ResultWritten
    /\ resultFile.is_valid
    /\ Len(resultLog) = Len(face_order) + 1
    /\ \A k \in 1..Len(face_order) : ~resultLog[k].is_valid

\* C7 (as claimed): a session in which show_live_preview or capture_face raised
\* at some faces, and which the user did not cancel, still captures all six
\* faces with nine White stickers for each failed face and reaches the
\* processing stage
C7_FaceFailureNeverAborts ==
    (pc = "done" /\ faceRaised # {} /\ ~cancelled) =>
        /\ ~escaped
        /\ Len(rawState) = TotalStickers
        /\ \A f \in faceRaised : FaceOf(rawState, f) = FallbackColors
        /\ \E k \in 1..Len(statusLog) : statusLog[k] = "processing"

\* C8 (as claimed): when fix_cube_complete raised or was unavailable, and the
\* validator did not raise and no write failed, the session ends with
\* cube_state and cube_string at their raw values and `complete` as last status
C8_ReconcilerFailureKeepsRaw ==
    (/\ pc = "done"
     /\ fixOutcome \in {"raised", "unavailable", "skipped"}
     /\ validateOutcome # "raised"
     /\ writeFailures = 0) =>
        /\ cube_state = rawState
        /\ cube_string = CubeString(rawState)
        /\ Last(statusLog) = "complete"

\* C9 (as claimed): when validate_cube_state was unavailable or raised, and no
\* write failed, the session ends with a final result holding is_valid = False
\* and `complete` as last status
C9_ValidatorFailureCompletes ==
    (/\ pc = "done"
     /\ validateOutcome \in {"raised", "unavailable"}
     /\ writeFailures = 0) =>
        /\ ~escaped
        /\ Last(resultLog).at = "save_final"
        /\ ~resultFile.is_valid
        /\ resultFile.total_stickers = TotalStickers
        /\ Last(statusLog) = "complete"

\* C10 (as claimed): no exception leaves the session, and a session that has
\* ended wrote a terminal status last
C10_NoEscapeTerminalStatus ==
    /\ ~escaped
    /\ pc = "done" => (statusLog # << >> /\ Last(statusLog) \in Terminal)

(***************************************************************************)
(* Properties of the classifier (SpecClassifier).                          *)
(***************************************************************************)
\* the hue bands as the specification states them; "none" for a hue in no band
ClaimedBand(h) ==
    CASE (0 <= h /\ h < 10) \/ (350 < h /\ h < 360) -> "Red"
      [] 10 <= h /\ h < 25 -> "Orange"
      [] 25 <= h /\ h < 35 -> "Yellow"
      [] 35 <= h /\ h < 85 -> "Green"
      [] 85 <= h /\ h < 180 -> "Blue"
      [] 180 <= h /\ h < 350 -> "Red"
      [] OTHER -> "none"

\* C19: classify_color is total: for every sample in range it returns one of
\* the six cube colours
C19_ClassifyTotal ==
    pc = "classified" => classified \in CubeColors

\* C19 witness: the hue 350, which no branch of the hue chain takes, was classified
C19_Witness ==
    /\ pc = "classified"
    /\ NormalizedHue(hsv) = 350
    /\ hsv[2] >= 50
    /\ classified = "White"

\* C20 (as claimed): with S >= 50 the result is the band of the hue, whatever V is
C20_HueAloneDecides ==
    (pc = "classified" /\ hsv[2] >= 50 /\ ClaimedBand(NormalizedHue(hsv)) # "none") =>
        classified = ClaimedBand(NormalizedHue(hsv))

\* C20 (amended): with S >= 50 the result is the band of the hue, whatever V is,
\* except that a hue in [20, 25) with V > 200 gives Yellow and not Orange
C20_HueDecidesButBrightYellow ==
    (pc = "classified" /\ hsv[2] >= 50 /\ ClaimedBand(NormalizedHue(hsv)) # "none") =>
        classified = IF hsv[3] > 200 /\ 20 <= NormalizedHue(hsv) /\ NormalizedHue(hsv) < 25
                     THEN "Yellow"
                     ELSE ClaimedBand(NormalizedHue(hsv))

\* C20 witness: a bright sample of hue 22 was classified Yellow
C20_Witness ==
    /\ pc = "classified"
    /\ hsv = << 22, 128, 255 >>
    /\ classified = "Yellow"

\* C21: a sample of low saturation (S < 50) is White, whatever its hue and brightness
C21_LowSaturationIsWhite ==
    (pc = "classified" /\ hsv[2] < 50) => classified = "White"

\* C21 witness: a dark, unsaturated sample of green hue was classified White
C21_Witness ==
    /\ pc = "classified"
    /\ hsv = << 120, 49, 100 >>
    /\ classified = "White"

\* C37: with S >= 50 the classifier answers White for the hue 350 and for no other
\* hue of 0..358: every other hue gets the colour of a band
C37_OnlyHue350FallsThrough ==
    (pc = "classified" /\ hsv[2] >= 50) =>
        /\ (classified = "White") <=> (NormalizedHue(hsv) = 350)
        /\ NormalizedHue(hsv) # 350 => classified \in CubeColors \ {"White"}
        /\ (SatisfiedTests(hsv) = {}) <=> (NormalizedHue(hsv) = 350)

\* C37 witness: the hue 350 at full saturation and brightness was classified White,
\* having satisfied no hue test
C37_Witness ==
    /\ pc = "classified"
    /\ hsv = << 350, 255, 255 >>
    /\ SatisfiedTests(hsv) = {}
    /\ classified = "White"

\* the boundary hues and the band each one opens
BoundaryBand ==
    [b \in {10, 25, 35, 85, 180} |->
        CASE b = 10 -> "Orange"
          [] b = 25 -> "Yellow"
          [] b = 35 -> "Green"
          [] b = 85 -> "Blue"
          [] b = 180 -> "Red"]

BoundaryHuesAssigned ==
    NormalizedHue(hsv) \in DOMAIN BoundaryBand =>
        classified = BoundaryBand[NormalizedHue(hsv)]

\* C22 (as claimed): with S >= 50 every boundary hue falls in the band it opens,
\* and no hue satisfies two of the classifier's hue tests
C22_BandsHalfOpenDisjoint ==
    (pc = "classified" /\ hsv[2] >= 50) =>
        /\ BoundaryHuesAssigned
        /\ Cardinality(SatisfiedTests(hsv)) <= 1

\* C22 (amended): with S >= 50 every boundary hue falls in the band it opens and
\* no hue satisfies two tests of the if/elif chain, whose test decides the colour;
\* the high-brightness test of line 150 overlaps the chain on 20..30, is applied
\* first and gives Yellow
C22_ChainHalfOpenBrightYellowFirst ==
    (pc = "classified" /\ hsv[2] >= 50) =>
        /\ BoundaryHuesAssigned
        /\ Cardinality(SatisfiedTests(hsv) \ {150}) <= 1
        /\ 150 \in SatisfiedTests(hsv) =>
              /\ classified = "Yellow"
              /\ SatisfiedTests(hsv) \ {150} \in {{160}, {162}}
        /\ \A line \in SatisfiedTests(hsv) :
              150 \notin SatisfiedTests(hsv) => classified = TestColor(line)

\* C22 witness: the boundary hue 25 with S = 50 was classified Yellow by the chain
C22_Witness ==
    /\ pc = "classified"
    /\ hsv = << 25, 50, 100 >>
    /\ classified = "Yellow"
    /\ SatisfiedTests(hsv) = {162}

(***************************************************************************)
(* Properties of the detect-colors endpoint (SpecDetect).                  *)
(***************************************************************************)
Responded == pc = "responded"
ValidPicture == request.body /\ request.image.kind = "image"

\* C23 (as claimed): the picture of the six swatches is answered with the names
\* of its swatches, cell by cell
C23_SwatchesClassified ==
    (Responded /\ impl = "root" /\ ValidPicture /\ request.image.mode = "RGB"
               /\ request.image.cells = ScenarioA) =>
        /\ response.success
        /\ response.colors = ScenarioA_Names

\* the colour the classifier gives the cell drawn at index k of a decoded picture
CellColor(image, k) ==
    LET pixel == BGR2HSV(RGB2BGR(image.cells[k]))
    IN  classify_color(<< 2 * pixel[1], pixel[2], pixel[3] >>)

\* a picture whose cells are wide enough to hold their sample region
CellsHoldSamples(image) == image.width >= 3 * sample_size /\ image.height >= 3 * sample_size

Regions ==
    [k \in 1..9 |-> sample_region(request.image, grid_positions(request.image)[k])]

\* C38: for a picture of at least one pixel each way, every one of the nine sample
\* regions lies in the picture and is not empty, so that every colour of the
\* answer is classified from a sample
C38_SampleRegionsNonEmpty ==
    (Responded /\ response.success) =>
        /\ request.image.width >= 1
        /\ request.image.height >= 1
        /\ \A k \in 1..9 :
              /\ 0 <= Regions[k].x1
              /\ Regions[k].x1 < Regions[k].x2
              /\ Regions[k].x2 <= request.image.width
              /\ 0 <= Regions[k].y1
              /\ Regions[k].y1 < Regions[k].y2
              /\ Regions[k].y2 <= request.image.height
              /\ color_sample(request.image, grid_positions(request.image)[k]) # {}

\* C38 witness: a picture one pixel wide and 21 pixels high was sampled and answered
C38_Witness ==
    /\ Responded
    /\ response.success
    /\ request.image.width = 1
    /\ request.image.height = 21
    /\ Regions[9] = [x1 |-> 0, y1 |-> 7, x2 |-> 1, y2 |-> 21]

\* C26: a request without an `image` field and a request whose `image` cannot be
\* decoded are both answered with success = false and an `error` field, without colours
C26_BadImageRejected ==
    (Responded /\ (~request.body \/ request.image.kind # "image")) =>
        /\ ~response.success
        /\ "error" \in response.fields
        /\ "colors" \notin response.fields
        /\ response.colors = << >>

\* C26 witness: the root copy answered 500 to an `image` that is not base64 data
C26_Witness ==
    /\ Responded
    /\ impl = "root"
    /\ request.image.kind = "garbage"
    /\ request.face = "front"
    /\ response.code = 500
    /\ ~response.success

\* C27 (as claimed): a request with an encoded picture and a face label is answered
\* with success = true, nine colour names, their notation codes and the face label
C27_ValidImageDetected ==
    (Responded /\ ValidPicture /\ request.face # "absent") =>
        /\ response.success
        /\ Len(response.colors) = 9
        /\ Len(response.cube_notation) = Len(response.colors)
        /\ \A k \in 1..Len(response.colors) :
              /\ response.colors[k] \in DOMAIN COLOR_TO_CUBE
              /\ response.cube_notation[k] = COLOR_TO_CUBE[response.colors[k]]
        /\ response.face = request.face

(***************************************************************************)
(* Properties of the store (SpecStore).                                    *)
(***************************************************************************)
StatusCalled == Len(statusLog') = Len(statusLog) + 1
ResultCalled == Len(resultLog') = Len(resultLog) + 1
WriteSucceeded == dirExists /\ writeFailures' = writeFailures
WithoutTimestamp(r) == [f \in (DOMAIN r) \ {"timestamp"} |-> r[f]]

\* C16: a successful update_status leaves in the status file exactly the record
\* of that call, a successful save_cube_state leaves in the result file exactly
\* the record of that call; update_status never changes the result file and
\* save_cube_state never changes the status file
C16_WholeFileOverwrite ==
    [][ /\ StatusCalled =>
              /\ resultFile' = resultFile
              /\ WriteSucceeded =>
                    statusFile' = [status |-> call'.status, message |-> call'.message,
                                   progress |-> call'.progress, timestamp |-> clock]
        /\ ResultCalled =>
              /\ statusFile' = statusFile
              /\ WriteSucceeded =>
                    /\ resultFile'.cube_state = call'.cube_state
                    /\ resultFile'.cube_string = call'.cube_string
                    /\ resultFile'.is_valid = call'.is_valid
                    /\ resultFile'.timestamp = clock
                    /\ resultFile'.total_stickers = Len(call'.cube_state)
                    /\ resultFile'.face_count = Len(call'.cube_state) \div FallbackLen
      ]_vars

\* C16 witness: both files were overwritten, the status file by a later call
\* than the result file
C16_Witness ==
    /\ pc = "caller"
    /\ Len(statusLog) = 2
    /\ Len(resultLog) = 1
    /\ writeFailures = 0
    /\ statusFile.status = "complete"
    /\ statusFile.timestamp > resultFile.timestamp
    /\ resultFile.total_stickers = 18
    /\ statusLog[1] = "starting"

\* C17: a successful save_cube_state whose arguments equal the cube_state,
\* cube_string and is_valid already stored leaves every field of the result
\* file other than timestamp as it was
C17_SaveIdempotent ==
    [][ ( /\ ResultCalled
          /\ WriteSucceeded
          /\ ~resultFile.absent
          /\ resultFile.cube_state = call'.cube_state
          /\ resultFile.cube_string = call'.cube_string
          /\ resultFile.is_valid = call'.is_valid )
        => WithoutTimestamp(resultFile') = WithoutTimestamp(resultFile)
      ]_vars

\* C17 witness: the same two faces were saved twice in a row, both times with success
C17_Witness ==
    /\ pc = "caller"
    /\ Len(resultLog) = 2
    /\ resultLog[1] = resultLog[2]
    /\ resultLog[1].stickers = 18
    /\ writeFailures = 0
    /\ dirExists
    /\ call.fn = "save_cube_state"
    /\ resultFile.timestamp = clock - 1
    /\ statusLog = << >>

(***************************************************************************)
(* Properties of the launcher (SpecLaunch).                                *)
(***************************************************************************)
\* C11 (as claimed): at any time at most one session is running, so at most one
\* thread holds the camera and only that thread writes the status file
C11_SingleActiveSession ==
    /\ Cardinality(ActiveThreads) <= 1
    /\ Cardinality(CameraHolders) <= 1

(***************************************************************************)
(* Properties of the session's writes and of cancellation (Spec).          *)
(***************************************************************************)
\* a step of the face loop in which an open(..., 'w') failed
FailedWriteInLoop == InFaceLoop /\ writeFailures' = writeFailures + 1

\* where the loop body goes from each of its writing steps when nothing is raised
LoopSuccessor ==
    CASE pc = "loop_head" -> "preview"
      [] pc = "cancel_status" -> "release"
      [] pc = "face_except" -> "store"
      [] pc = "store" -> IF i + 1 < Len(face_order) THEN "loop_head" ELSE "release"
      [] OTHER -> "none"

\* C12: a write of update_status or save_cube_state that fails during the face loop
\* neither aborts the session nor rolls anything back: the step goes where it goes
\* when the write succeeds, cube_state and the face index are what the step makes
\* them without the failure, and nothing escapes
C12_FailedWriteNonFatal ==
    [][ FailedWriteInLoop =>
          /\ pc' = LoopSuccessor
          /\ escaped' = escaped
          /\ camera' = camera
          /\ cube_state' = IF pc = "store" THEN cube_state \o colors ELSE cube_state
          /\ i' = IF pc = "store" THEN i + 1 ELSE i
      ]_vars

\* the partial save of the first face failed and the session is at the second face
C12_Witness ==
    /\ pc = "loop_head"
    /\ i = 1
    /\ writeFailures = 1
    /\ resultFile = AbsentResult
    /\ Len(resultLog) = 1
    /\ Len(cube_state) = FallbackLen

\* C13 (as claimed): whenever a session has attempted a write, the output directory
\* exists (no file-system failure injected)
C13_DirectoryBeforeFirstWrite ==
    (writeFailures = 0 /\ (statusLog # << >> \/ resultLog # << >>)) => dirExists

\* the statuses of the loop: one LoopStatus per face, `error` before a fallback face
LoopStatuses(log) == SubSeq(log, 3, Len(log) - 3)

\* C14 (as claimed): a session that reaches `complete` has written starting, ready,
\* the statuses of the six faces, then processing, fixing, complete
C14_ProcessingFixingComplete ==
    (pc = "done" /\ statusLog # << >> /\ Last(statusLog) = "complete") =>
        /\ Len(statusLog) >= 2 + Len(face_order) + 3
        /\ SubSeq(statusLog, 1, 2) = << "starting", "ready" >>
        /\ SubSeq(statusLog, Len(statusLog) - 2, Len(statusLog))
              = << "processing", "fixing", "complete" >>
        /\ \A k \in 1..Len(LoopStatuses(statusLog)) :
              LoopStatuses(statusLog)[k] \in {LoopStatus, "error"}

\* C15 (as claimed): `error` is only ever the last status a session writes
C15_ErrorIsTerminal ==
    \A k \in 1..(Len(statusLog) - 1) : statusLog[k] # "error"

\* C18: once the user has cancelled at face i, the session is past the loop body:
\* capture_face is not called again, cube_state keeps the 9*i stickers of the i
\* faces stored before, no further result is saved, and the last partial result
\* saved (for i >= 1) is the one of i faces, which is the file's content when no
\* write failed
C18_CancelObservedAtReady ==
    /\ [](cancelled =>
            /\ pc \in {"cancel_status", "release", "check_len", "done"}
            /\ Len(cube_state) = FallbackLen * i
            /\ Len(faceSource) = i
            /\ Len(resultLog) = i
            /\ (i >= 1 => Last(resultLog).stickers = FallbackLen * i)
            /\ ((i >= 1 /\ writeFailures = 0) =>
                   /\ resultFile.face_count = i
                   /\ resultFile.cube_state = cube_state))
    /\ [][ cancelled =>
             /\ colors' = colors
             /\ cube_state' = cube_state
             /\ i' = i
             /\ resultLog' = resultLog
             /\ resultFile' = resultFile ]_vars

\* a session cancelled at the third face (i = 2) has ended with eighteen stickers
C18_Witness ==
    /\ cancelled
    /\ pc = "done"
    /\ i = 2
    /\ Len(cube_state) = 2 * FallbackLen
    /\ resultFile.face_count = 2

(***************************************************************************)
(* Properties of the session's status records, face order and              *)
(* reconciliation (Spec).                                                  *)
(***************************************************************************)
StatusVocabulary == {"starting", "ready", "capturing", "processing", "fixing", "complete",
                     "cancelled", "incomplete", "error"}

\* C25: every status record written to the file has a status of the vocabulary and
\* a progress between 0 and 100, and its progress is 100 exactly when its status
\* is `complete`
C25_StatusRecordRanges ==
    statusFile # AbsentStatus =>
        /\ statusFile.status \in StatusVocabulary
        /\ 0 <= statusFile.progress
        /\ statusFile.progress <= Percent(100)
        /\ (statusFile.progress = Percent(100)) <=> (statusFile.status = "complete")

\* C25 witness: the record of the sixth face, at five sixths of 100, is in the file
C25_Witness ==
    /\ pc = "preview"
    /\ i = 5
    /\ statusFile.status \in {"ready", "capturing"}
    /\ statusFile.progress * Len(face_order) = 5 * Percent(100)

Entered(position) == pc' = position /\ pc # position

\* C28: the faces are visited by the index i, which starts at 0 and only grows by
\* one, in the store step of the face: the preview of a face is entered from the
\* loop head only, with 9 * i stickers stored and i saves attempted, the capture
\* is entered from the preview only, and the next face is started from the store
\* step, which appends the nine colours and attempts the partial save
C28_FacesInOrderOnce ==
    /\ [](face_order = << "White", "Red", "Green", "Yellow", "Orange", "Blue" >>)
    /\ [](InFaceLoop => (i < Len(face_order) /\ Len(cube_state) = 9 * i))
    /\ [][ /\ Entered("preview") =>
                /\ pc = "loop_head"
                /\ i' = i
                /\ Len(resultLog) = i
           /\ Entered("capture") => (pc = "preview" /\ i' = i)
           /\ Entered("loop_head") => pc \in {"status_ready", "store"}
           /\ i' # i =>
                /\ pc = "store"
                /\ i' = i + 1
                /\ Len(colors) = 9
                /\ cube_state' = cube_state \o colors
                /\ Len(resultLog') = Len(resultLog) + 1
                /\ Last(resultLog').stickers = 9 * (i + 1)
         ]_vars

\* C28 witness: the preview of the sixth face, Blue, after five faces stored and saved
C28_Witness ==
    /\ pc = "preview"
    /\ face_order[i + 1] = "Blue"
    /\ Len(cube_state) = 45
    /\ Len(resultLog) = 5
    /\ faceSource = << "captured", "fallback", "captured", "captured", "captured" >>

\* the two copies of integrated_camera_capture, which the backend serves
BackendCopies == {"root", "api"}

\* C29: in the backend's session the wait for the trigger of face i is entered from
\* the loop head only, whose step writes a `ready` status naming the face, its
\* index i + 1 of 6 and the progress i / 6 of 100; the capture is entered from
\* that wait only
C29_ReadyBeforeTrigger ==
    [][ (impl \in BackendCopies) =>
          /\ Entered("preview") =>
                /\ pc = "loop_head"
                /\ statusLog' = Append(statusLog, "ready")
                /\ writeFailures' = writeFailures =>
                      /\ statusFile'.status = "ready"
                      /\ statusFile'.message.face = face_order[i + 1]
                      /\ statusFile'.message.index = i + 1
                      /\ statusFile'.message.count = 6
                      /\ statusFile'.progress * 6 = i * Percent(100)
                      /\ statusFile'.timestamp = clock
          /\ Entered("capture") =>
                /\ pc = "preview"
                /\ Last(statusLog) = "ready"
      ]_vars

\* C29 witness: the api copy waits for the trigger of the fourth face, Yellow
C29_Witness ==
    /\ impl = "api"
    /\ pc = "preview"
    /\ i = 3
    /\ statusFile.status = "ready"
    /\ statusFile.message.face = "Yellow"
    /\ statusFile.message.index = 4
    /\ statusFile.progress = 300

\* C30: once fix_cube_complete has returned, cube_state is its result and
\* cube_string is recomputed from it, and the final result written to the file
\* holds that result
C30_ReconcilerOutputReplaces ==
    (fixOutcome = "returned" /\ ~escaped) =>
        /\ cube_state = fixed_cube_state
        /\ cube_string = CubeString(fixed_cube_state)
        /\ (pc \in {"final_status", "done"} /\ success) =>
              /\ resultFile.cube_state = fixed_cube_state
              /\ resultFile.cube_string = CubeString(fixed_cube_state)
              /\ Last(resultLog).at = "save_final"

\* C30 witness: a complete session whose saved result is the reconciler's output
\* and differs from the raw capture
C30_Witness ==
    /\ pc = "done"
    /\ success
    /\ fixOutcome = "returned"
    /\ fixed_cube_state # rawState
    /\ resultFile.cube_state = fixed_cube_state
    /\ resultFile.cube_string # CubeString(rawState)

(***************************************************************************)
(* The result record, the end of the session and the camera (Spec).        *)
(***************************************************************************)
\* the statuses passed to update_status so far
Statuses == { statusLog[k] : k \in 1..Len(statusLog) }
\* the session made its final save_cube_state call
FinalSaveMade == resultLog # << >> /\ Last(resultLog).at = "save_final"

\* C31: the record in the result file has a cube_string as long as its cube_state,
\* whose k-th character is the notation code of the k-th colour (X for a colour
\* missing from COLOR_TO_CUBE), face_count = len(cube_state) div 9 and
\* total_stickers = len(cube_state); so has every record the session passes to
\* save_cube_state
C31_ResultRecordConsistent ==
    /\ ~resultFile.absent =>
          /\ Len(resultFile.cube_string) = Len(resultFile.cube_state)
          /\ \A k \in 1..Len(resultFile.cube_state) :
                resultFile.cube_string[k] =
                    IF resultFile.cube_state[k] \in DOMAIN COLOR_TO_CUBE
                    THEN COLOR_TO_CUBE[resultFile.cube_state[k]]
                    ELSE "X"
          /\ resultFile.face_count = Len(resultFile.cube_state) \div 9
          /\ resultFile.total_stickers = Len(resultFile.cube_state)
    /\ (pc = "save_final" \/ FinalSaveMade) =>
          /\ Len(cube_string) = Len(cube_state)
          /\ \A k \in 1..Len(cube_state) :
                cube_string[k] = IF cube_state[k] \in DOMAIN COLOR_TO_CUBE
                                 THEN COLOR_TO_CUBE[cube_state[k]]
                                 ELSE "X"

\* C31 witness: a partial record of two faces written by this session holds a
\* colour missing from the mapping, encoded X
C31_Witness ==
    /\ ~resultFile.absent
    /\ resultFile.timestamp > 0
    /\ resultFile.face_count = 2
    /\ resultFile.total_stickers = 18
    /\ \E k \in 1..18 : /\ resultFile.cube_state[k] = "Purple"
                         /\ resultFile.cube_string[k] = "X"

\* C32: whenever the status file holds `complete`, the result file holds the final
\* record of this session, with 54 stickers and 6 faces, written just before
C32_ResultBeforeComplete ==
    /\ statusFile.status = "complete" =>
          /\ ~resultFile.absent
          /\ resultFile.total_stickers = TotalStickers
          /\ resultFile.face_count = Len(face_order)
          /\ resultFile.cube_state = cube_state
          /\ resultFile.cube_string = cube_string
          /\ resultFile.is_valid = final_is_valid
          /\ resultFile.timestamp = statusFile.timestamp - 1
    /\ "complete" \in Statuses =>
          /\ FinalSaveMade
          /\ resultFile.timestamp = clock - 2
          /\ resultFile.total_stickers = TotalStickers

\* C32 witness: a finished session; the status file says complete and the result
\* file holds the valid final record written one tick earlier
C32_Witness ==
    /\ pc = "done"
    /\ statusFile.status = "complete"
    /\ statusFile.progress = Percent(100)
    /\ resultFile.is_valid
    /\ resultFile.total_stickers = TotalStickers
    /\ resultFile.timestamp = statusFile.timestamp - 1

\* C33: `complete` is passed to update_status exactly when the final
\* save_cube_state call returned True, that is when its write took place; when
\* it failed, the last status is `error` although cube_state holds 54 stickers
C33_CompleteIffFinalSaveSucceeded ==
    /\ "complete" \in Statuses => (pc = "done" /\ success /\ Last(statusLog) = "complete")
    /\ pc = "final_status" => (success <=> resultFile.timestamp = clock - 1)
    /\ (pc = "done" /\ FinalSaveMade) => (success <=> resultFile.timestamp = clock - 2)
    /\ (pc = "done" /\ FinalSaveMade) =>
          /\ (Last(statusLog) = "complete") <=> success
          /\ ~success => /\ Last(statusLog) = "error"
                         /\ "complete" \notin Statuses
                         /\ Len(cube_state) = TotalStickers

\* C33 witness: the final write failed after six faces; the session ended with `error`
C33_Witness ==
    /\ pc = "done"
    /\ FinalSaveMade
    /\ ~success
    /\ Len(cube_state) = TotalStickers
    /\ Last(statusLog) = "error"
    /\ writeFailures = 1
    /\ resultFile.total_stickers = TotalStickers
    /\ ~resultFile.is_valid

\* C34: the is_valid of the final save is what validate_cube_state returned for
\* the final cube_state (False when it gave no verdict in the api copy), whatever
\* flag fix_cube_complete returned
C34_ValidatorVerdictSaved ==
    /\ (pc \in {"save_final", "final_status", "done"} /\ ~escaped) =>
          final_is_valid = (verdict = "valid")
    /\ \A k \in 1..Len(resultLog) :
          resultLog[k].at = "save_final" => resultLog[k].is_valid = (verdict = "valid")
    /\ success => resultFile.is_valid = (verdict = "valid")

\* C34 witness: the reconciler called the cube valid, the validator did not, and
\* the saved final result is not valid
C34_Witness ==
    /\ pc = "done"
    /\ success
    /\ fixOutcome = "returned"
    /\ fix_is_valid
    /\ verdict = "invalid"
    /\ ~resultFile.is_valid
    /\ resultFile.total_stickers = TotalStickers

\* the steps after the face loop and its cam.release()
AfterRelease == pc \in {"check_len", "fix_status", "fix_call", "validate", "save_final",
                        "final_status"}

\* C35: after the face loop the camera is released before `incomplete`,
\* `processing` or `fixing` is passed to update_status and before
\* fix_cube_complete or validate_cube_state is called
C35_ReleasedBeforeProcessing ==
    /\ AfterRelease => (camera = "released" /\ releaseCount = 1)
    /\ Statuses \cap {"incomplete", "processing", "fixing"} # {} => camera = "released"
    /\ (fixOutcome # "none" \/ validateOutcome # "none") => camera = "released"

\* C35 witness: fix_cube_complete is about to be called, `processing` or `fixing`
\* has been written and the camera is released
C35_Witness ==
    /\ pc = "fix_call"
    /\ camera = "released"
    /\ releaseCount = 1
    /\ Last(statusLog) \in {"processing", "fixing"}

\* C36: until the first face is appended the session makes no save_cube_state
\* call and the result file stays as the previous session left it: after the
\* start, after a camera-open failure and after a cancellation at the first face
C36_ResultUntouchedBeforeFirstFace ==
    /\ [](cube_state = << >> =>
            /\ resultLog = << >>
            /\ resultFile \in {AbsentResult, StaleResult})
    /\ [][ cube_state' = << >> => resultFile' = resultFile ]_vars

\* C36 witness: the user cancelled at the first face; the status file reports this
\* session as incomplete and the result file still holds the earlier 54 stickers
C36_Witness ==
    /\ pc = "done"
    /\ cancelled
    /\ cube_state = << >>
    /\ statusFile.status = "incomplete"
    /\ statusFile.timestamp > 0
    /\ resultFile = StaleResult

(***************************************************************************)
(* The guards of the api copy's launcher (SpecLaunch).                     *)
(***************************************************************************)
BackendAndCameraAvailable ==
    config_imported /\ camera_interface_imported

\* C39: the api copy starts a session only with the configuration and the camera
\* functions imported; otherwise every request is answered 503, no thread is
\* started and the status and result files are not written
C39_ApiLaunchGuards ==
    impl = "api" =>
        IF BackendAndCameraAvailable
        THEN \A r \in 1..Len(responses) : responses[r] \in {200, 500}
        ELSE /\ \A r \in 1..Len(responses) : responses[r] = 503
             /\ Threads = {}
             /\ statusLog = << >>
             /\ resultLog = << >>
             /\ statusFile = AbsentStatus
             /\ resultFile = AbsentResult
             /\ lastWriter = 0

\* C39 witness: the api copy without the camera functions has refused two requests
C39_Witness ==
    /\ impl = "api"
    /\ config_imported
    /\ ~camera_interface_imported
    /\ responses = << 503, 503 >>
    /\ Threads = {}

TypeOK ==
    /\ impl \in Impls
    /\ pc \in {"entry", "ensure_dir", "starting", "open_camera", "camera_error", "status_ready",
               "loop_head", "preview", "cancel_status", "capture", "face_except", "edit",
               "store", "release", "check_len", "fix_status", "fix_call", "validate",
               "save_final", "final_status", "except", "done"}
    /\ i \in 0..Len(face_order)
    /\ camera \in {"none", "failed", "open", "released"}
    /\ writeFailures \in 0..MaxWriteFailures
    /\ releaseCount \in Nat
====
